---- MODULE Spec2Model ----
(***************************************************************************)
(* Row transformation and export-eligibility engine of the Outlook CSV     *)
(* generator (src/src/app/layout.tsx, src/src/lib/normalization.ts,        *)
(* src/src/lib/xlsx.ts, src/unnamed/part_001 = lib/csv.ts).                *)
(*                                                                         *)
(* A JavaScript string is modelled as the sequence of its characters, each *)
(* a TLA+ string of length 1: Str("ab") = <<"a", "b">>.  The string        *)
(* methods are computed character by character.  Object keys that are     *)
(* never inspected (output headers, override keys, file names, labels)     *)
(* stay TLA+ strings.                                                      *)
(***************************************************************************)
EXTENDS Integers, Sequences, FiniteSets, TLC

(***************************************************************************)
(* Characters and the JavaScript string methods.                           *)
(***************************************************************************)
Lower == "abcdefghijklmnopqrstuvwxyz"
Upper == "ABCDEFGHIJKLMNOPQRSTUVWXYZ"
Digits == "0123456789"
\* Precomposed accented letters of the data, and the base letter NFD
\* decomposes each into (the combining mark is then removed).
Accented == "áéíóúñÁÉÍÓÚÑ"
AccentBase == "aeiounAEIOUN"
AccentedLower == "áéíóúñ"
AccentedUpper == "ÁÉÍÓÚÑ"

\* the JavaScript string written s
Str(s) == [i \in 1..Len(s) |-> SubSeq(s, i, i)]

\* the set of the characters written in s
CharSet(s) == {SubSeq(s, i, i) : i \in 1..Len(s)}

\* the character map sending from[i] to to[i]
CharMap(from, to) ==
  [c \in CharSet(from) |->
     SubSeq(to, CHOOSE i \in 1..Len(from) : SubSeq(from, i, i) = c,
                CHOOSE i \in 1..Len(from) : SubSeq(from, i, i) = c)]

\* \s of the regular expressions and of String.prototype.trim
WhitespaceChars == {" "}
\* [a-z0-9], [a-z0-9.], [A-Z0-9], \d
WordChars == CharSet(Lower \o Digits)
EmailChars == CharSet(Lower \o Digits \o ".")
AlphaNumUpper == CharSet(Upper \o Digits)
DigitChars == CharSet(Digits)
AccentedChars == CharSet(Accented)
UpperCaseChars == CharSet(Upper \o AccentedUpper)
LowerCaseChars == CharSet(Lower \o AccentedLower)

AccentMap == CharMap(Accented, AccentBase)
LowerCaseMap == CharMap(Upper \o AccentedUpper, Lower \o AccentedLower)
UpperCaseMap == CharMap(Lower \o AccentedLower, Upper \o AccentedUpper)

toLowerCase(v) ==
  [i \in 1..Len(v) |-> IF v[i] \in UpperCaseChars THEN LowerCaseMap[v[i]] ELSE v[i]]

toUpperCase(v) ==
  [i \in 1..Len(v) |-> IF v[i] \in LowerCaseChars THEN UpperCaseMap[v[i]] ELSE v[i]]

\* v.replace(/[^allowed]/g, "")
KeepOnly(v, allowed) ==
  LET Allowed(c) == c \in allowed IN SelectSeq(v, Allowed)

\* v.replace(/[^allowed]/g, r) for a one-character r
ReplaceOthers(v, allowed, r) ==
  [i \in 1..Len(v) |-> IF v[i] \in allowed THEN v[i] ELSE r]

\* the length of the white space that leads v, and of that which trails it
LeadingSpace(v) ==
  CHOOSE k \in 0..Len(v) :
     /\ \A i \in 1..k : v[i] \in WhitespaceChars
     /\ k < Len(v) => v[k + 1] \notin WhitespaceChars

TrailingSpace(v) ==
  CHOOSE k \in 0..Len(v) :
     /\ \A i \in (Len(v) - k + 1)..Len(v) : v[i] \in WhitespaceChars
     /\ k < Len(v) => v[Len(v) - k] \notin WhitespaceChars

\* String.prototype.trim (a string of white space only has all of it leading
\* and all of it trailing, and the empty SubSeq is what remains)
trim(v) == SubSeq(v, LeadingSpace(v) + 1, Len(v) - TrailingSpace(v))

\* the numbers of S in increasing order
Ordered(S) ==
  [j \in 1..Cardinality(S) |-> CHOOSE b \in S : Cardinality({k \in S : k < b}) = j - 1]

\* the runs of v between consecutive positions of bounds
RunsBetween(v, bounds) ==
  [j \in 1..(Len(bounds) - 1) |-> SubSeq(v, bounds[j] + 1, bounds[j + 1] - 1)]

\* the maximal runs of characters of v that are not separators, empty runs
\* included when keepEmpty (v.split(sep)) and left out otherwise
SplitBy(v, separators, keepEmpty) ==
  LET Kept(run) == keepEmpty \/ run # <<>>
  IN SelectSeq(RunsBetween(v, Ordered({0} \cup {i \in 1..Len(v) : v[i] \in separators}
                                          \cup {Len(v) + 1})),
               Kept)

\* v.split(sep) for a one-character separator
split(v, sep) == SplitBy(v, {sep}, TRUE)

\* haystack.includes(needle)
includes(haystack, needle) ==
  \E i \in 1..(Len(haystack) - Len(needle) + 1) :
     SubSeq(haystack, i, i + Len(needle) - 1) = needle

(***************************************************************************)
(* lib/normalization.ts                                                    *)
(***************************************************************************)
stripAccents(value) ==
  [i \in 1..Len(value) |->
     IF value[i] \in AccentedChars THEN AccentMap[value[i]] ELSE value[i]]

normalizedWords(value) ==
  LET cleaned == trim(ReplaceOthers(toLowerCase(stripAccents(value)),
                                    WordChars \cup WhitespaceChars, " "))
  IN IF cleaned = <<>> THEN <<>> ELSE SplitBy(cleaned, WhitespaceChars, FALSE)

\* words[k - 1] ?? ""
WordAt(words, k) == IF Len(words) >= k THEN words[k] ELSE <<>>

\* firstWord returning the second word
firstWordTakesSecond(value) == WordAt(normalizedWords(value), 2)

firstWord(value) == WordAt(normalizedWords(value), 1)

secondWord(value) == WordAt(normalizedWords(value), 2)

EmailDomain == Str("@autonomadeica.edu.pe")

\* the address both builders return for a chosen name and first surname
UsernameOf(name, firstSurname) ==
  IF name = <<>> \/ firstSurname = <<>> THEN <<>>
  ELSE KeepOnly(name \o <<".">> \o firstSurname, EmailChars) \o EmailDomain

buildUsername(nombres, apellidos) ==
  UsernameOf(firstWord(nombres), firstWord(apellidos))

buildUsernameWithSecondName(nombres, apellidos) ==
  UsernameOf(secondWord(nombres), firstWord(apellidos))

digitsOnly(value) == KeepOnly(value, DigitChars)

\* the model's values are strings: null and undefined are handled where a
\* lookup can miss (Cell, RawCell, RuleOf, OverrideOf)
toCleanString(value) == trim(value)

(***************************************************************************)
(* lib/xlsx.ts: a sheet as read by XLSX is a header row and data rows of   *)
(* cells; parseWorkbook turns it into columns and DataRows.                *)
(***************************************************************************)
\* row[column] of a DataRow, "" when undefined
Cell(row, column) ==
  IF column \in DOMAIN row.cells THEN row.cells[column] ELSE <<>>

RawCell(raw, i) == IF i <= Len(raw) THEN raw[i] ELSE <<>>

Columna == Str("Columna")

ensureUnique(cols) ==
  [i \in 1..Len(cols) |->
     LET base == IF cols[i] = <<>> THEN Columna ELSE cols[i]
         count == Cardinality({j \in 1..(i - 1) :
                     (IF cols[j] = <<>> THEN Columna ELSE cols[j]) = base})
     IN IF count = 0 THEN base
        ELSE base \o <<" ", "(">> \o Str(ToString(count + 1)) \o <<")">>]

parseColumns(headerRow) ==
  ensureUnique([i \in 1..Len(headerRow) |->
     LET value == toCleanString(headerRow[i])
     IN IF value # <<>> THEN value ELSE Columna \o <<" ">> \o Str(ToString(i))])

\* the data rows after the header: the row at 0-based index k gets row number
\* k + 2, a row whose cells are all empty is dropped; a column name occurring
\* twice keeps the value of its last occurrence
RECURSIVE parseRows(_, _, _)
parseRows(cols, rawRows, index) ==
  IF index > Len(rawRows) THEN <<>>
  ELSE LET cells == [c \in {cols[i] : i \in 1..Len(cols)} |->
                       LET last == CHOOSE i \in 1..Len(cols) :
                                     /\ cols[i] = c
                                     /\ \A j \in 1..Len(cols) : cols[j] = c => j <= i
                       IN toCleanString(RawCell(rawRows[index], last))]
           hasValues == \E i \in 1..Len(cols) :
                          toCleanString(RawCell(rawRows[index], i)) # <<>>
           record == [rowNumber |-> index + 1, cells |-> cells]
       IN (IF hasValues THEN <<record>> ELSE <<>>)
          \o parseRows(cols, rawRows, index + 1)

parseSheet(raw) ==
  LET cols == parseColumns(raw.header)
  IN [name |-> raw.name, columns |-> cols, rows |-> parseRows(cols, raw.rows, 1)]

(***************************************************************************)
(* lib/csv.ts                                                              *)
(***************************************************************************)
OUTLOOK_HEADERS ==
  << "Nombre de usuario", "Nombre", "Apellido", "Nombre para mostrar",
     "Puesto", "Departamento", "Número del trabajo", "Teléfono de la oficina",
     "Teléfono móvil", "Fax", "Dirección de correo electrónico alternativa",
     "Dirección", "Ciudad", "Estado o provincia", "Código postal",
     "País o región" >>

HeaderSet == {OUTLOOK_HEADERS[i] : i \in 1..Len(OUTLOOK_HEADERS)}

GENERATED_USERNAME == Str("username")
GENERATED_DISPLAY == Str("displayName")
HEADER_MOBILE == "Teléfono móvil"

\* a MappingRule is [type, value]; a mapping is a function from headers to
\* rules, and a header outside its domain has no rule (undefined)
NoRule == [type |-> "undefined", value |-> <<>>]

RuleOf(m, header) == IF header \in DOMAIN m THEN m[header] ELSE NoRule

resolveBaseValue(rule, row) ==
  IF rule = NoRule THEN <<>>
  ELSE IF rule.type = "fixed" THEN toCleanString(rule.value)
  ELSE IF rule.type = "column" THEN toCleanString(Cell(row, rule.value))
  ELSE <<>>

buildGeneratedUsername(row, m) ==
  LET nombre == resolveBaseValue(RuleOf(m, "Nombre"), row)
      apellido == resolveBaseValue(RuleOf(m, "Apellido"), row)
  IN buildUsername(nombre, apellido)

\* [apellido, nombre].filter(Boolean).join(" ").trim()
JoinDisplayName(apellido, nombre) ==
  trim(IF apellido = <<>> THEN nombre
       ELSE IF nombre = <<>> THEN apellido
       ELSE apellido \o <<" ">> \o nombre)

\* OutputValue filtering the digits of column and fixed values only
OutputValueGeneratedUnfiltered(header, rule, row, username, displayName) ==
  IF rule.type = "generated"
  THEN (IF rule.value = GENERATED_USERNAME THEN username
        ELSE IF rule.value = GENERATED_DISPLAY THEN displayName
        ELSE <<>>)
  ELSE IF header = HEADER_MOBILE \/ header = "Fax"
  THEN digitsOnly(resolveBaseValue(rule, row))
  ELSE resolveBaseValue(rule, row)

\* the body of the forEach over OUTLOOK_HEADERS: output[header]
OutputValue(header, rule, row, username, displayName) ==
  LET value == IF rule.type = "generated"
               THEN (IF rule.value = GENERATED_USERNAME THEN username
                     ELSE IF rule.value = GENERATED_DISPLAY THEN displayName
                     ELSE <<>>)
               ELSE resolveBaseValue(rule, row)
  IN IF header = HEADER_MOBILE \/ header = "Fax"
     THEN digitsOnly(value)
     ELSE value

buildOutputRow(row, m) ==
  LET nombre == resolveBaseValue(RuleOf(m, "Nombre"), row)
      apellido == resolveBaseValue(RuleOf(m, "Apellido"), row)
  IN [header \in HeaderSet |->
        OutputValue(header, RuleOf(m, header), row,
                    buildUsername(nombre, apellido), JoinDisplayName(apellido, nombre))]

buildOutputRows(rs, m) == [i \in 1..Len(rs) |-> buildOutputRow(rs[i], m)]

(***************************************************************************)
(* app/page.tsx (src/src/app/layout.tsx): pure helpers                     *)
(***************************************************************************)
DEFAULT_REQUIRED == [dni |-> TRUE, celular |-> TRUE, codigo |-> TRUE]

\* GENERATED_BY_HEADER[header], "" when the header has no generated kind
GENERATED_BY_HEADER(header) ==
  IF header = "Nombre de usuario" THEN GENERATED_USERNAME
  ELSE IF header = "Nombre para mostrar" THEN GENERATED_DISPLAY
  ELSE <<>>

normalizeKey(value) == KeepOnly(toUpperCase(stripAccents(value)), AlphaNumUpper)

normalizeValue(value) == KeepOnly(toUpperCase(stripAccents(value)), AlphaNumUpper)

\* what normalizeEmail returns for [localRaw, domainRaw] = cleaned.split("@")
EmailOfParts(localRaw, domainRaw) ==
  IF domainRaw = <<>> THEN KeepOnly(localRaw, EmailChars)
  ELSE KeepOnly(localRaw, EmailChars) \o <<"@">> \o KeepOnly(domainRaw, EmailChars)

\* what normalizeEmail returns for the cleaned text
EmailOfCleaned(cleaned) ==
  IF cleaned = <<>> THEN <<>>
  ELSE LET parts == split(cleaned, "@")
       IN EmailOfParts(parts[1], IF Len(parts) >= 2 THEN parts[2] ELSE <<>>)

normalizeEmail(value) == EmailOfCleaned(toLowerCase(stripAccents(toCleanString(value))))

\* the first column whose normalized name contains a normalized candidate
findColumn(cols, candidates) ==
  LET normalizedCandidates == [k \in 1..Len(candidates) |-> normalizeKey(candidates[k])]
      Matches(column) ==
        LET normalizedColumn == normalizeKey(column)
        IN \E k \in 1..Len(candidates) :
              includes(normalizedColumn, normalizedCandidates[k])
      found == {i \in 1..Len(cols) : Matches(cols[i])}
  IN IF found = {} THEN <<>>
     ELSE cols[CHOOSE i \in found : \A j \in found : i <= j]

ColumnRule(value) == [type |-> "column", value |-> value]
FixedRule(value) == [type |-> "fixed", value |-> value]
GeneratedRule(value) == [type |-> "generated", value |-> value]

NombreCandidates == <<Str("NOMBRES"), Str("NOMBRES COMPLETOS"), Str("NOMBRE")>>
ApellidoCandidates == <<Str("APELLIDOS"), Str("APELLIDOS COMPLETOS"), Str("APELLIDO")>>
CelularCandidates == <<Str("NUMERO DE CELULAR"), Str("CELULAR"), Str("TELEFONO MOVIL")>>
DniCandidates == <<Str("DNI"), Str("DOCUMENTO")>>
CodigoCandidates ==
  <<Str("CODIGO DE ESTUDIANTE"), Str("CODIGO ESTUDIANTE"), Str("CODIGO")>>
CorreoCandidates == <<Str("CORREO PERSONAL"), Str("EMAIL PERSONAL"), Str("MAIL")>>
CondicionCandidates == <<Str("CONDICION"), Str("CONDICIÓN")>>
FaxCandidates == <<Str("Fax"), Str("FAX")>>
UpnCandidates ==
  <<Str("User principal name"), Str("UserPrincipalName"), Str("User principalname")>>
Estudiante == Str("Estudiante")
Peru == Str("Peru")
INGRESO == Str("INGRESO")

buildDefaultMapping(cols) ==
  LET nombre == findColumn(cols, NombreCandidates)
      apellido == findColumn(cols, ApellidoCandidates)
      celular == findColumn(cols, CelularCandidates)
      dni == findColumn(cols, DniCandidates)
      codigo == findColumn(cols, CodigoCandidates)
      correo == findColumn(cols, CorreoCandidates)
  IN [header \in HeaderSet |->
        CASE header = "Nombre de usuario" ->
               GeneratedRule(GENERATED_BY_HEADER("Nombre de usuario"))
          [] header = "Nombre" -> ColumnRule(nombre)
          [] header = "Apellido" -> ColumnRule(apellido)
          [] header = "Nombre para mostrar" ->
               GeneratedRule(GENERATED_BY_HEADER("Nombre para mostrar"))
          [] header = "Puesto" -> FixedRule(Estudiante)
          [] header = "Teléfono móvil" -> ColumnRule(celular)
          [] header = "Fax" -> ColumnRule(dni)
          [] header = "Dirección de correo electrónico alternativa" -> ColumnRule(correo)
          [] header = "Código postal" -> ColumnRule(codigo)
          [] header = "País o región" -> FixedRule(Peru)
          [] OTHER -> FixedRule(<<>>)]

getRowNameParts(row, m) ==
  LET output == buildOutputRow(row, m)
  IN [nombre |-> toCleanString(output["Nombre"]),
      apellido |-> toCleanString(output["Apellido"])]

getRowDni(row, m) == digitsOnly(toCleanString(buildOutputRow(row, m)["Fax"]))

getGeneratedEmail(row, m) == buildGeneratedUsername(row, m)

\* getAlternateEmail built from the first given name
getAlternateEmailFirstName(nombre, apellido) == buildUsername(nombre, apellido)

getAlternateEmail(nombre, apellido) == buildUsernameWithSecondName(nombre, apellido)

\* rowHasIngresoCondition comparing the upper-cased cell, accents kept
rowHasIngresoConditionKeepsAccents(row, condColumn) ==
  IF condColumn = <<>> THEN TRUE
  ELSE KeepOnly(toUpperCase(toCleanString(Cell(row, condColumn))), AlphaNumUpper)
         = INGRESO

rowHasIngresoCondition(row, condColumn) ==
  IF condColumn = <<>> THEN TRUE
  ELSE normalizeValue(toCleanString(Cell(row, condColumn))) = INGRESO

\* stored is a (possibly partial) mapping, or NoStored for null
NoStored == [null |-> TRUE]

mergeMapping(defaults, stored) ==
  IF stored = NoStored THEN defaults
  ELSE [header \in HeaderSet |->
          IF header \in DOMAIN stored THEN stored[header] ELSE defaults[header]]

ColumnSet(cols) == {cols[i] : i \in 1..Len(cols)}

\* sanitizeMapping starting from an empty object instead of the defaults
sanitizeMappingWithoutDefaults(m, cols, defaults) ==
  LET Kept(header) == RuleOf(m, header).type \in {"column", "generated", "fixed"}
  IN [header \in {h \in HeaderSet : Kept(h)} |->
        LET rule == RuleOf(m, header)
        IN IF rule.type = "column"
           THEN (IF rule.value \in ColumnSet(cols) THEN rule ELSE ColumnRule(<<>>))
           ELSE IF rule.type = "generated"
           THEN (IF GENERATED_BY_HEADER(header) # <<>>
                    /\ rule.value = GENERATED_BY_HEADER(header)
                 THEN rule ELSE defaults[header])
           ELSE rule]

sanitizeMapping(m, cols, defaults) ==
  [header \in HeaderSet |->
     LET rule == RuleOf(m, header)
     IN IF rule = NoRule THEN defaults[header]
        ELSE IF rule.type = "column"
             THEN (IF rule.value \in ColumnSet(cols) THEN rule ELSE ColumnRule(<<>>))
        ELSE IF rule.type = "generated"
             THEN (IF GENERATED_BY_HEADER(header) # <<>>
                      /\ rule.value = GENERATED_BY_HEADER(header)
                   THEN rule ELSE defaults[header])
        ELSE IF rule.type = "fixed" THEN rule
        ELSE defaults[header]]

\* the enabled required fields that are empty in a projected row, in the
\* order validateRows pushes them
MissingFields(output, req) ==
  (IF req.dni /\ toCleanString(output["Fax"]) = <<>> THEN <<"DNI">> ELSE <<>>)
  \o (IF req.celular /\ toCleanString(output["Teléfono móvil"]) = <<>>
      THEN <<"Celular">> ELSE <<>>)
  \o (IF req.codigo /\ toCleanString(output["Código postal"]) = <<>>
      THEN <<"Código estudiante">> ELSE <<>>)

RECURSIVE validateRowsFrom(_, _, _, _, _, _)
validateRowsFrom(rs, i, m, req, condColumn, dnis) ==
  IF i > Len(rs) THEN <<>>
  ELSE LET row == rs[i]
           output == buildOutputRow(row, m)
           dniValue == digitsOnly(toCleanString(output["Fax"]))
           missing == MissingFields(output, req)
           issue == IF ~rowHasIngresoCondition(row, condColumn) THEN <<>>
                    ELSE IF dniValue # <<>> /\ dniValue \in dnis THEN <<>>
                    ELSE IF Len(missing) = 0 THEN <<>>
                    ELSE <<[rowNumber |-> row.rowNumber, missing |-> missing]>>
       IN issue \o validateRowsFrom(rs, i + 1, m, req, condColumn, dnis)

\* validateRows reporting every empty field, its flag enabled or not
validateRowsIgnoresFlags(rs, m, req, condColumn, dnis) ==
  validateRowsFrom(rs, 1, m, [dni |-> TRUE, celular |-> TRUE, codigo |-> TRUE],
                   condColumn, dnis)

\* validateRows without the check of the directory's identity numbers
validateRowsNoDirectory(rs, m, req, condColumn, dnis) ==
  validateRowsFrom(rs, 1, m, req, condColumn, {})

validateRows(rs, m, req, condColumn, dnis) ==
  validateRowsFrom(rs, 1, m, req, condColumn, dnis)

\* rowMeetsRequired without the check of the student code
rowMeetsRequiredSkipsCodigo(row, m, req, condColumn, dnis) ==
  IF ~rowHasIngresoCondition(row, condColumn) THEN FALSE
  ELSE LET output == buildOutputRow(row, m)
           dniValue == digitsOnly(toCleanString(output["Fax"]))
       IN IF dniValue # <<>> /\ dniValue \in dnis THEN FALSE
          ELSE IF req.dni /\ toCleanString(output["Fax"]) = <<>> THEN FALSE
          ELSE IF req.celular /\ toCleanString(output["Teléfono móvil"]) = <<>> THEN FALSE
          ELSE TRUE

\* rowMeetsRequired without the look-up of the DNI in the directory
rowMeetsRequiredNoDirectory(row, m, req, condColumn, dnis) ==
  IF ~rowHasIngresoCondition(row, condColumn) THEN FALSE
  ELSE LET output == buildOutputRow(row, m)
       IN IF req.dni /\ toCleanString(output["Fax"]) = <<>> THEN FALSE
          ELSE IF req.celular /\ toCleanString(output["Teléfono móvil"]) = <<>> THEN FALSE
          ELSE IF req.codigo /\ toCleanString(output["Código postal"]) = <<>> THEN FALSE
          ELSE TRUE

\* rowMeetsRequired reading the celular flag negated
rowMeetsRequiredCelularInverted(row, m, req, condColumn, dnis) ==
  IF ~rowHasIngresoCondition(row, condColumn) THEN FALSE
  ELSE LET output == buildOutputRow(row, m)
           dniValue == digitsOnly(toCleanString(output["Fax"]))
       IN IF dniValue # <<>> /\ dniValue \in dnis THEN FALSE
          ELSE IF req.dni /\ toCleanString(output["Fax"]) = <<>> THEN FALSE
          ELSE IF ~req.celular /\ toCleanString(output["Teléfono móvil"]) = <<>> THEN FALSE
          ELSE IF req.codigo /\ toCleanString(output["Código postal"]) = <<>> THEN FALSE
          ELSE TRUE

\* the checks rowMeetsRequired makes on the projected row output
OutputMeetsRequired(output, req, dnis) ==
  LET dniValue == digitsOnly(toCleanString(output["Fax"]))
  IN IF dniValue # <<>> /\ dniValue \in dnis THEN FALSE
     ELSE IF req.dni /\ toCleanString(output["Fax"]) = <<>> THEN FALSE
     ELSE IF req.celular /\ toCleanString(output["Teléfono móvil"]) = <<>> THEN FALSE
     ELSE IF req.codigo /\ toCleanString(output["Código postal"]) = <<>> THEN FALSE
     ELSE TRUE

rowMeetsRequired(row, m, req, condColumn, dnis) ==
  IF ~rowHasIngresoCondition(row, condColumn) THEN FALSE
  ELSE OutputMeetsRequired(buildOutputRow(row, m), req, dnis)

filterRowsForExport(rs, m, req, condColumn, dnis) ==
  LET Meets(row) == rowMeetsRequired(row, m, req, condColumn, dnis)
  IN SelectSeq(rs, Meets)

\* String(row.__rowNumber), the key of emailOverrides
RowKey(row) == ToString(row.rowNumber)

\* emailOverrides[key], "" for undefined (both are falsy)
OverrideOf(overrides, key) ==
  IF key \in DOMAIN overrides THEN overrides[key] ELSE <<>>

\* normalizeEmail(override || getGeneratedEmail(row, mapping))
EffectiveEmail(row, m, overrides) ==
  LET override == OverrideOf(overrides, RowKey(row))
  IN normalizeEmail(IF override # <<>> THEN override ELSE getGeneratedEmail(row, m))

\* plannedEmailCounts.get(email) ?? 0
CountOf(counts, email) == IF email \in DOMAIN counts THEN counts[email] ELSE 0

RECURSIVE filterRowsByEmailFrom(_, _, _, _, _, _, _)
filterRowsByEmailFrom(rs, i, m, overrides, emails, counts, seen) ==
  IF i > Len(rs) THEN <<>>
  ELSE LET row == rs[i]
           email == EffectiveEmail(row, m, overrides)
           counted == email # <<>> /\ email \notin emails /\ CountOf(counts, email) > 1
           keep == IF email = <<>> THEN TRUE
                   ELSE IF email \in emails THEN FALSE
                   ELSE IF counted /\ email \in seen THEN FALSE
                   ELSE TRUE
           seenNext == IF counted /\ email \notin seen THEN seen \cup {email} ELSE seen
       IN (IF keep THEN <<row>> ELSE <<>>)
          \o filterRowsByEmailFrom(rs, i + 1, m, overrides, emails, counts, seenNext)

\* filterRowsByEmail with "count > 2" for "count > 1"
filterRowsByEmailCountAbove2(rs, m, overrides, emails, counts) ==
  filterRowsByEmailFrom(rs, 1, m, overrides, emails,
                        [email \in DOMAIN counts |-> counts[email] - 1], {})

\* filterRowsByEmail without the seen set: no duplicate is dropped
filterRowsByEmailNoDedup(rs, m, overrides, emails, counts) ==
  filterRowsByEmailFrom(rs, 1, m, overrides, emails, <<>>, {})

filterRowsByEmail(rs, m, overrides, emails, counts) ==
  filterRowsByEmailFrom(rs, 1, m, overrides, emails, counts, {})

(***************************************************************************)
(* Inputs: the spreadsheets and the Outlook directory files a user loads.  *)
(***************************************************************************)
MaxRows == 2
MaxGenerated == 500

\* cells under NOMBRES, APELLIDOS, DNI, CELULAR, CODIGO, CONDICIÓN
RawRowPool ==
  { <<Str("Ana María"), Str("López Díaz"), Str("12345678"), Str("999 111 222"),
      Str("C001"), Str("INGRESÓ")>>,
    <<Str("ANA"), Str("LOPEZ"), Str("44444444"), Str(""), Str("C002"), Str(" Ingreso ")>>,
    <<Str("Luis"), Str("Paz"), Str("1234-5678"), Str("5"), Str("C003"), Str("RETIRADO")>>,
    <<Str(""), Str("Quispe"), Str(""), Str("7"), Str(""), Str("INGRESO")>> }

RawHeaders ==
  { <<Str("NOMBRES"), Str("APELLIDOS"), Str("DNI"), Str("CELULAR"), Str("CODIGO"),
      Str("CONDICIÓN")>>,
    <<Str("NOMBRES"), Str("APELLIDOS"), Str("DNI"), Str("CELULAR"), Str("CODIGO")>> }

RECURSIVE SeqsUpTo(_, _)
SeqsUpTo(S, n) ==
  IF n = 0 THEN {<<>>}
  ELSE LET shorter == SeqsUpTo(S, n - 1)
       IN shorter \cup {Append(q, e) : q \in shorter, e \in S}

RawSheets ==
  {[name |-> "Hoja1", header |-> h, rows |-> r] :
     h \in RawHeaders, r \in SeqsUpTo(RawRowPool, MaxRows) \ {<<>>}}

\* a parsed record of a directory file: the values under the file's fields
ParsedRecord(fields, values) ==
  [f \in {fields[i] : i \in 1..Len(fields)} |->
     values[CHOOSE i \in 1..Len(fields) : fields[i] = f]]

UsersFields == <<Str("Display name"), Str("User principal name"), Str("Fax")>>
Users2Fields == <<Str("UserPrincipalName"), Str("FAX Number")>>
NoFaxFields == <<Str("Display name"), Str("User principal name")>>
NoUpnFields == <<Str("Fax"), Str("Mail")>>

\* an Outlook directory export as Papa.parse returns it (meta.fields, data),
\* or a file whose text cannot be read
DirectoryFiles ==
  { [name |-> "users.csv", readable |-> TRUE, fields |-> UsersFields,
     data |-> << ParsedRecord(UsersFields,
                   <<Str("Ana"), Str(" Ana.Lopez@autonomadeica.edu.pe"), Str("44444444")>>),
                 ParsedRecord(UsersFields,
                   <<Str("Luis"), Str("luis.paz@autonomadeica.edu.pe"), Str("")>>),
                 ParsedRecord(UsersFields, <<Str("Sala"), Str(""), Str("")>>) >>],
    [name |-> "users2.csv", readable |-> TRUE, fields |-> Users2Fields,
     data |-> << ParsedRecord(Users2Fields,
                   <<Str("ana.lopez@autonomadeica.edu.pe"), Str("12 345 678")>>),
                 ParsedRecord(Users2Fields,
                   <<Str("maria.lopez@autonomadeica.edu.pe"), Str("-")>>),
                 ParsedRecord(Users2Fields, <<Str("jose.lopez"), Str("")>>) >>],
    [name |-> "nofax.csv", readable |-> TRUE, fields |-> NoFaxFields,
     data |-> << ParsedRecord(NoFaxFields,
                   <<Str("Ana"), Str("ana.lopez@autonomadeica.edu.pe")>>) >>],
    [name |-> "users3.csv", readable |-> TRUE, fields |-> UsersFields,
     data |-> << ParsedRecord(UsersFields,
                   <<Str("Ana"), Str("ana.lopez@autonomadeica.edu.pe"), Str("")>>),
                 ParsedRecord(UsersFields,
                   <<Str("María"), Str("Maria.Lopez@autonomadeica.edu.pe"), Str("")>>) >>],
    [name |-> "noupn.csv", readable |-> TRUE, fields |-> NoUpnFields,
     data |-> << ParsedRecord(NoUpnFields,
                   <<Str("12345678"), Str("ana.lopez@autonomadeica.edu.pe")>>) >>],
    [name |-> "broken.csv", readable |-> FALSE, fields |-> <<>>, data |-> <<>>] }

\* what a user types into a conflict row's "Correo final" input
TypedEmails ==
  { Str(""), Str("  "), Str(" Ana.Lopez@autonomadeica.edu.pe "),
    Str("maria.lopez@autonomadeica.edu.pe "), Str("-") }

\* the rule changes a user makes in the MappingEditor
MappingEdits ==
  { <<"Fax", FixedRule(Str("12345678"))>>, <<"Fax", ColumnRule(Str("DNI"))>> }

\* a generated record of the export batcher's input, numbered i
SyntheticRecord(i) ==
  [header \in HeaderSet |-> IF header = "Fax" THEN Str(ToString(i)) ELSE <<>>]

(***************************************************************************)
(* State of HomePage (the useState cells) and the files downloaded.        *)
(***************************************************************************)
VARIABLES workbook, sheetName, columns, rows, mapping, required, hasUserMapping,
          storedMapping, outlookDirectory, emailOverrides, generatedRows, csvText,
          downloads,
          \* a call of one of the library functions: its arguments, and what
          \* it returned
          argument, returned,
          \* the calls of handleFileChange that reached file.arrayBuffer(), in
          \* the order they were started: the workbook each one is reading
          \* and whether its read has resolved
          fileReads

vars == <<workbook, sheetName, columns, rows, mapping, required, hasUserMapping,
          storedMapping, outlookDirectory, emailOverrides, generatedRows, csvText,
          downloads, argument, returned, fileReads>>

\* workbook is null; the sheets of a workbook that was read are never none
NoWorkbook == <<>>
\* no library function is being called; a call that has not returned, and
\* one that returned value
NoCall == [fn |-> "", args |-> <<>>]
NotReturned == [done |-> FALSE]
Returned(value) == [done |-> TRUE, value |-> value]

\* outlookDirectory is null
NoDirectory == [null |-> TRUE]
\* OutlookDirectory.error is null
NoError == ""

(***************************************************************************)
(* The derived values of HomePage (useMemo), recomputed from the state.    *)
(***************************************************************************)
conditionColumn == findColumn(columns, CondicionCandidates)

existingDnis == IF outlookDirectory = NoDirectory THEN {} ELSE outlookDirectory.dnis

existingEmails == IF outlookDirectory = NoDirectory THEN {} ELSE outlookDirectory.emails

validationIssues == validateRows(rows, mapping, required, conditionColumn, existingDnis)

baseExportRows ==
  filterRowsForExport(rows, mapping, required, conditionColumn, existingDnis)

chunkSize == 249

CeilDiv(n, d) == (n + d - 1) \div d

totalCsvParts ==
  IF Len(generatedRows) = 0 THEN 0 ELSE CeilDiv(Len(generatedRows), chunkSize)

RECURSIVE existingDniMatchesFrom(_, _)
existingDniMatchesFrom(rs, i) ==
  IF i > Len(rs) THEN <<>>
  ELSE LET row == rs[i]
           dni == getRowDni(row, mapping)
           parts == getRowNameParts(row, mapping)
           match == IF dni = <<>> \/ dni \notin existingDnis THEN <<>>
                    ELSE <<[rowNumber |-> row.rowNumber, dni |-> dni,
                            nombre |-> parts.nombre, apellido |-> parts.apellido]>>
       IN match \o existingDniMatchesFrom(rs, i + 1)

\* existingDniMatches without the filter on the enrollment condition
existingDniMatchesAnyCondition ==
  IF existingDnis = {} THEN <<>> ELSE existingDniMatchesFrom(rows, 1)

existingDniMatches ==
  IF existingDnis = {} THEN <<>>
  ELSE LET HasCondition(row) == rowHasIngresoCondition(row, conditionColumn)
       IN existingDniMatchesFrom(SelectSeq(rows, HasCondition), 1)

\* ConflictOf looking up the generated email, whatever the override
ConflictOfIgnoresOverride(row, generatedEmail, parts) ==
  IF generatedEmail = <<>> \/ generatedEmail \notin existingEmails
  THEN <<>>
  ELSE <<[rowNumber |-> row.rowNumber, nombre |-> parts.nombre,
          apellido |-> parts.apellido, generatedEmail |-> generatedEmail]>>

\* what the map callback returns for a row, given its generated email and
\* its name parts: no entry (null), or the row's conflict entry
ConflictOf(row, generatedEmail, parts) ==
  LET override == OverrideOf(emailOverrides, RowKey(row))
      effectiveEmail ==
        normalizeEmail(IF override # <<>> THEN override ELSE generatedEmail)
  IN IF effectiveEmail = <<>> \/ effectiveEmail \notin existingEmails
     THEN <<>>
     ELSE <<[rowNumber |-> row.rowNumber, nombre |-> parts.nombre,
             apellido |-> parts.apellido, generatedEmail |-> generatedEmail]>>

RECURSIVE emailConflictRowsFrom(_, _)
emailConflictRowsFrom(rs, i) ==
  IF i > Len(rs) THEN <<>>
  ELSE ConflictOf(rs[i], normalizeEmail(getGeneratedEmail(rs[i], mapping)),
                  getRowNameParts(rs[i], mapping))
       \o emailConflictRowsFrom(rs, i + 1)

emailConflictRows ==
  IF existingEmails = {} THEN <<>> ELSE emailConflictRowsFrom(baseExportRows, 1)

\* the tally that the plannedEmailCounts memo builds over the rows base
countPlannedEmails(base, m, overrides) ==
  LET emails == [i \in 1..Len(base) |-> EffectiveEmail(base[i], m, overrides)]
      planned == {emails[i] : i \in 1..Len(base)} \ {<<>>}
  IN [email \in planned |-> Cardinality({i \in 1..Len(base) : emails[i] = email})]

plannedEmailCounts == countPlannedEmails(baseExportRows, mapping, emailOverrides)

exportRows ==
  filterRowsByEmail(baseExportRows, mapping, emailOverrides, existingEmails,
                    plannedEmailCounts)

\* conflictStatus asking isDuplicate before isUsed
conflictStatusDuplicateFirst(conflict) ==
  LET key == ToString(conflict.rowNumber)
      currentValue == IF key \in DOMAIN emailOverrides THEN emailOverrides[key]
                      ELSE conflict.generatedEmail
      normalized == normalizeEmail(currentValue)
  IN IF normalized = <<>> THEN "Sin correo"
     ELSE IF CountOf(plannedEmailCounts, normalized) > 1
     THEN "Duplicado en la lista (no se exporta)"
     ELSE IF normalized \in existingEmails THEN "En uso"
     ELSE "Disponible"

\* the "Estado" cell of a row of the conflict table
conflictStatus(conflict) ==
  LET key == ToString(conflict.rowNumber)
      currentValue == IF key \in DOMAIN emailOverrides THEN emailOverrides[key]
                      ELSE conflict.generatedEmail
      normalized == normalizeEmail(currentValue)
      isUsed == normalized # <<>> /\ normalized \in existingEmails
      isDuplicate == normalized # <<>> /\ CountOf(plannedEmailCounts, normalized) > 1
  IN IF normalized = <<>> THEN "Sin correo"
     ELSE IF isUsed THEN "En uso"
     ELSE IF isDuplicate THEN "Duplicado en la lista (no se exporta)"
     ELSE "Disponible"

(***************************************************************************)
(* Effects and handlers.                                                   *)
(***************************************************************************)
\* the mapping effect with hasUserMapping false: defaults merged with the
\* stored mapping, sanitized against the columns
InitialMapping(cols, stored) ==
  LET defaults == buildDefaultMapping(cols)
      base == IF stored # NoStored THEN mergeMapping(defaults, stored) ELSE defaults
  IN sanitizeMapping(base, cols, defaults)

\* the state once a workbook is loaded, its first sheet shown and the sheet
\* and mapping effects have run; nothing persisted, no directory loaded
Init ==
  \E raw \in RawSheets :
     LET sheet == parseSheet(raw)
     IN /\ workbook = <<sheet>>
        /\ sheetName = sheet.name
        /\ argument = NoCall
        /\ returned = NotReturned
        /\ columns = sheet.columns
        /\ rows = sheet.rows
        /\ storedMapping = NoStored
        /\ hasUserMapping = FALSE
        /\ mapping = InitialMapping(sheet.columns, NoStored)
        /\ required = DEFAULT_REQUIRED
        /\ outlookDirectory = NoDirectory
        /\ emailOverrides = <<>>
        /\ generatedRows = <<>>
        /\ csvText = ""
        /\ downloads = <<>>
        /\ fileReads = <<>>

\* the three "required" checkboxes: onChange sets the flag to the box's state
ToggleRequired ==
  /\ \E flag \in {"dni", "celular", "codigo"} :
        required' = [required EXCEPT ![flag] = ~required[flag]]
  /\ UNCHANGED <<workbook, sheetName, argument, returned,
                 columns, rows, mapping, hasUserMapping, storedMapping,
                 outlookDirectory, emailOverrides, generatedRows, csvText, downloads,
                 fileReads>>

NonEmpty(S) == S \ {<<>>}

\* row[field] ?? "" of a parsed record
FieldOf(record, field) == IF field \in DOMAIN record THEN record[field] ELSE <<>>

\* loadDirectory treating each column on its own: a missing column empties
\* only its own set
loadDirectoryIndependentColumns(file) ==
  LET faxField == findColumn(file.fields, FaxCandidates)
      upnField == findColumn(file.fields, UpnCandidates)
  IN IF ~file.readable
     THEN [fileName |-> file.name, rowCount |-> 0, dnis |-> {}, emails |-> {},
           error |-> "No se pudo leer el CSV de Outlook."]
     ELSE [fileName |-> file.name, rowCount |-> Len(file.data),
           dnis |-> IF faxField = <<>> THEN {}
                    ELSE NonEmpty({digitsOnly(toCleanString(FieldOf(file.data[i], faxField))) :
                                     i \in 1..Len(file.data)}),
           emails |-> IF upnField = <<>> THEN {}
                      ELSE NonEmpty({normalizeEmail(FieldOf(file.data[i], upnField)) :
                                       i \in 1..Len(file.data)}),
           error |-> IF faxField = <<>> \/ upnField = <<>>
                     THEN "No se encontraron las columnas Fax y User principal name en el CSV."
                     ELSE NoError]

\* loadDirectory testing only "!faxField"
loadDirectoryChecksFaxOnly(file) ==
  LET faxField == findColumn(file.fields, FaxCandidates)
      upnField == findColumn(file.fields, UpnCandidates)
  IN IF ~file.readable
     THEN [fileName |-> file.name, rowCount |-> 0, dnis |-> {}, emails |-> {},
           error |-> "No se pudo leer el CSV de Outlook."]
     ELSE IF faxField = <<>>
     THEN [fileName |-> file.name, rowCount |-> Len(file.data), dnis |-> {}, emails |-> {},
           error |-> "No se encontraron las columnas Fax y User principal name en el CSV."]
     ELSE [fileName |-> file.name, rowCount |-> Len(file.data),
           dnis |-> NonEmpty({digitsOnly(toCleanString(FieldOf(file.data[i], faxField))) :
                                i \in 1..Len(file.data)}),
           emails |-> NonEmpty({normalizeEmail(FieldOf(file.data[i], upnField)) :
                                  i \in 1..Len(file.data)}),
           error |-> NoError]

\* the OutlookDirectory that handleOutlookCsvChange sets for a chosen file
loadDirectory(file) ==
  LET faxField == findColumn(file.fields, FaxCandidates)
      upnField == findColumn(file.fields, UpnCandidates)
  IN IF ~file.readable
     THEN [fileName |-> file.name, rowCount |-> 0, dnis |-> {}, emails |-> {},
           error |-> "No se pudo leer el CSV de Outlook."]
     ELSE IF faxField = <<>> \/ upnField = <<>>
     THEN [fileName |-> file.name, rowCount |-> Len(file.data), dnis |-> {}, emails |-> {},
           error |-> "No se encontraron las columnas Fax y User principal name en el CSV."]
     ELSE [fileName |-> file.name, rowCount |-> Len(file.data),
           dnis |-> NonEmpty({digitsOnly(toCleanString(FieldOf(file.data[i], faxField))) :
                                i \in 1..Len(file.data)}),
           emails |-> NonEmpty({normalizeEmail(FieldOf(file.data[i], upnField)) :
                                  i \in 1..Len(file.data)}),
           error |-> NoError]

\* the snapshots that the files a user can choose are loaded as
LoadedDirectories == {loadDirectory(file) : file \in DirectoryFiles}

handleOutlookCsvChange ==
  /\ \E loaded \in LoadedDirectories : outlookDirectory' = loaded
  /\ UNCHANGED <<workbook, sheetName, argument, returned,
                 columns, rows, mapping, required, hasUserMapping, storedMapping,
                 emailOverrides, generatedRows, csvText, downloads,
                 fileReads>>

\* the "Correos ya usados" section is rendered
ConflictSectionShown ==
  outlookDirectory # NoDirectory /\ outlookDirectory.error = NoError

Without(f, key) == [k \in DOMAIN f \ {key} |-> f[k]]

With(f, key, value) == [k \in DOMAIN f \cup {key} |-> IF k = key THEN value ELSE f[k]]

\* editOverride comparing the typed text itself with the generated email
editOverrideRawCompare(overrides, conflict, nextValue) ==
  LET key == ToString(conflict.rowNumber)
      cleanedValue == toCleanString(nextValue)
  IN IF cleanedValue = <<>> \/ cleanedValue = conflict.generatedEmail
     THEN [k \in DOMAIN overrides \ {key} |-> overrides[k]]
     ELSE [k \in DOMAIN overrides \cup {key} |->
             IF k = key THEN cleanedValue ELSE overrides[k]]

\* onChange of a conflict row's input
editOverride(overrides, conflict, nextValue) ==
  LET key == ToString(conflict.rowNumber)
      cleanedValue == toCleanString(nextValue)
  IN IF cleanedValue = <<>> \/ normalizeEmail(cleanedValue) = conflict.generatedEmail
     THEN Without(overrides, key)
     ELSE With(overrides, key, cleanedValue)

EditOverride ==
  /\ ConflictSectionShown
  /\ LET conflicts == emailConflictRows
     IN \E i \in 1..Len(conflicts), nextValue \in TypedEmails :
           emailOverrides' = editOverride(emailOverrides, conflicts[i], nextValue)
  /\ UNCHANGED <<workbook, sheetName, argument, returned,
                 columns, rows, mapping, required, hasUserMapping, storedMapping,
                 outlookDirectory, generatedRows, csvText, downloads,
                 fileReads>>

\* useAlternate removing the override of a row that already has one
RECURSIVE useAlternateToggles(_, _, _)
useAlternateToggles(updated, conflicts, i) ==
  IF i > Len(conflicts) THEN updated
  ELSE LET conflict == conflicts[i]
           key == ToString(conflict.rowNumber)
           alternate == getAlternateEmail(conflict.nombre, conflict.apellido)
           next == IF OverrideOf(updated, key) # <<>> THEN Without(updated, key)
                   ELSE IF alternate = <<>> THEN updated
                   ELSE IF normalizeEmail(alternate) = conflict.generatedEmail THEN updated
                   ELSE With(updated, key, alternate)
       IN useAlternateToggles(next, conflicts, i + 1)

\* onClick of "Usar segundo nombre + primer apellido"
RECURSIVE useAlternate(_, _, _)
useAlternate(updated, conflicts, i) ==
  IF i > Len(conflicts) THEN updated
  ELSE LET conflict == conflicts[i]
           key == ToString(conflict.rowNumber)
           alternate == getAlternateEmail(conflict.nombre, conflict.apellido)
           next == IF OverrideOf(updated, key) # <<>> THEN updated
                   ELSE IF alternate = <<>> THEN updated
                   ELSE IF normalizeEmail(alternate) = conflict.generatedEmail THEN updated
                   ELSE With(updated, key, alternate)
       IN useAlternate(next, conflicts, i + 1)

BulkAlternate ==
  /\ ConflictSectionShown
  /\ LET conflicts == emailConflictRows
     IN /\ Len(conflicts) > 0
        /\ emailOverrides' = useAlternate(emailOverrides, conflicts, 1)
  /\ UNCHANGED <<workbook, sheetName, argument, returned,
                 columns, rows, mapping, required, hasUserMapping, storedMapping,
                 outlookDirectory, generatedRows, csvText, downloads,
                 fileReads>>

\* the mapping effect after hasUserMapping turned true
SanitizedByEffect(m, wasUserMapping) ==
  IF Len(columns) = 0 \/ wasUserMapping THEN m
  ELSE sanitizeMapping(m, columns, buildDefaultMapping(columns))

\* MappingEditor onChange: updateRule(header, rule)
MappingEdit ==
  /\ \E edit \in MappingEdits :
        mapping' = SanitizedByEffect([mapping EXCEPT ![edit[1]] = edit[2]], hasUserMapping)
  /\ hasUserMapping' = TRUE
  /\ UNCHANGED <<workbook, sheetName, argument, returned,
                 columns, rows, required, storedMapping, outlookDirectory,
                 emailOverrides, generatedRows, csvText, downloads,
                 fileReads>>

handleReset ==
  /\ mapping' = SanitizedByEffect(buildDefaultMapping(columns), hasUserMapping)
  /\ required' = DEFAULT_REQUIRED
  /\ hasUserMapping' = TRUE
  /\ UNCHANGED <<workbook, sheetName, argument, returned,
                 columns, rows, storedMapping, outlookDirectory, emailOverrides,
                 generatedRows, csvText, downloads,
                 fileReads>>

\* downloadFiles with Math.floor for Math.ceil
downloadFilesFloor(generated) ==
  LET totalParts == Len(generated) \div chunkSize
      Min(a, b) == IF a <= b THEN a ELSE b
  IN [part \in 1..totalParts |->
        LET start == (part - 1) * chunkSize
            chunk == SubSeq(generated, start + 1, Min(start + chunkSize, Len(generated)))
        IN [name |-> IF totalParts = 1 THEN "contactos_outlook.csv"
                     ELSE "contactos_outlook_parte_" \o ToString(part) \o ".csv",
            fields |-> OUTLOOK_HEADERS,
            data |-> [r \in 1..Len(chunk) |->
                        [h \in 1..Len(OUTLOOK_HEADERS) |-> chunk[r][OUTLOOK_HEADERS[h]]]]]]

\* one file per chunk of chunkSize generated rows
downloadFiles(generated) ==
  LET totalParts == CeilDiv(Len(generated), chunkSize)
      Min(a, b) == IF a <= b THEN a ELSE b
  IN [part \in 1..totalParts |->
        LET start == (part - 1) * chunkSize
            chunk == SubSeq(generated, start + 1, Min(start + chunkSize, Len(generated)))
        IN [name |-> IF totalParts = 1 THEN "contactos_outlook.csv"
                     ELSE "contactos_outlook_parte_" \o ToString(part) \o ".csv",
            fields |-> OUTLOOK_HEADERS,
            data |-> [r \in 1..Len(chunk) |->
                        [h \in 1..Len(OUTLOOK_HEADERS) |-> chunk[r][OUTLOOK_HEADERS[h]]]]]]

\* the download button is enabled once a CSV was generated
handleDownload ==
  /\ csvText # ""
  /\ downloads' = IF Len(generatedRows) = 0 THEN downloads ELSE downloadFiles(generatedRows)
  /\ UNCHANGED <<workbook, sheetName, argument, returned,
                 columns, rows, mapping, required, hasUserMapping, storedMapping,
                 outlookDirectory, emailOverrides, generatedRows, csvText,
                 fileReads>>

Next ==
  \/ ToggleRequired
  \/ handleOutlookCsvChange
  \/ EditOverride
  \/ BulkAlternate

Spec == Init /\ [][Next]_vars

(***************************************************************************)
(* The export batcher alone: a CSV of n rows was generated, then the user  *)
(* downloads it.                                                           *)
(***************************************************************************)
InitDownload ==
  \E n \in 0..MaxGenerated :
     /\ workbook = NoWorkbook
     /\ sheetName = ""
     /\ argument = NoCall
     /\ returned = NotReturned
     /\ columns = <<>>
     /\ rows = <<>>
     /\ storedMapping = NoStored
     /\ hasUserMapping = FALSE
     /\ mapping = buildDefaultMapping(<<>>)
     /\ required = DEFAULT_REQUIRED
     /\ outlookDirectory = NoDirectory
     /\ emailOverrides = <<>>
     /\ generatedRows = [i \in 1..n |-> SyntheticRecord(i)]
     /\ csvText = "csv"
     /\ downloads = <<>>
     /\ fileReads = <<>>

NextDownload == handleDownload

SpecDownload == InitDownload /\ [][NextDownload]_vars

(***************************************************************************)
(* The library functions called on their own: the arguments are drawn, the *)
(* function is applied once and its value is returned.                     *)
(***************************************************************************)
MaxTextLen == 3

\* the texts a caller passes as an email, as given names and as surnames
EmailInputs == SeqsUpTo({"a", "@", "-", ".", " ", "Á"}, MaxTextLen)
NameInputs == SeqsUpTo({"a", "Í", " ", "-"}, MaxTextLen)
SurnameInputs == SeqsUpTo({"a", "Í", " ", "-"}, MaxTextLen - 1)

\* the rows of the sheets with all six columns, one data row each
RowInputs ==
  {parseSheet([name |-> "Hoja1",
               header |-> <<Str("NOMBRES"), Str("APELLIDOS"), Str("DNI"),
                            Str("CELULAR"), Str("CODIGO"), Str("CONDICIÓN")>>,
               rows |-> <<r>>]).rows[1] :
     r \in RawRowPool}

\* rules of every type, and a rule whose type is none of the three
RuleInputs ==
  { ColumnRule(Str("CELULAR")), ColumnRule(Str("NOMBRES")), FixedRule(Str("+51 9a")),
    GeneratedRule(GENERATED_USERNAME), GeneratedRule(GENERATED_DISPLAY),
    GeneratedRule(Str("other")), [type |-> "unknown", value |-> <<>>] }

\* mappings: the default rules with the rules of Nombre, "Teléfono móvil"
\* and Fax replaced, a mapping with two rules only, and one with none
MappingInputs ==
  LET defaults == buildDefaultMapping(<<Str("NOMBRES"), Str("APELLIDOS"), Str("DNI"),
                                        Str("CELULAR"), Str("CODIGO")>>)
  IN {[defaults EXCEPT !["Nombre"] = n, ![HEADER_MOBILE] = t, !["Fax"] = f] :
        n \in {ColumnRule(Str("NOMBRES")), ColumnRule(Str("DNI"))},
        t \in RuleInputs, f \in RuleInputs}
     \cup {[header \in {"Nombre", "Fax"} |-> defaults[header]], <<>>}

\* the column names of the sheets a user loads: those of RawHeaders, and a
\* sheet that names the same data differently
ColumnInputs ==
  {parseColumns(h) : h \in RawHeaders}
  \cup { <<Str("NOMBRE"), Str("APELLIDO"), Str("DOCUMENTO"), Str("CELULAR")>> }

\* what JSON.parse returns for the persisted mapping: nothing (null), the
\* mapping an earlier session saved for a sheet with the columns NOMBRES,
\* APELLIDOS, DNI, CELULAR, CODIGO, a mapping with one rule only, rules of
\* a type that is none of the three, generated kinds the field does not
\* allow, and a fixed rule
StoredMappings ==
  { NoStored,
    buildDefaultMapping(<<Str("NOMBRES"), Str("APELLIDOS"), Str("DNI"),
                          Str("CELULAR"), Str("CODIGO")>>),
    [header \in {"Nombre"} |-> ColumnRule(Str("NOMBRES"))],
    [header \in {"Nombre"} |-> [type |-> "lookup", value |-> Str("NOMBRES")]],
    [header \in {"Nombre", "Nombre de usuario"} |->
       IF header = "Nombre" THEN GeneratedRule(GENERATED_USERNAME)
       ELSE GeneratedRule(GENERATED_DISPLAY)],
    [header \in {"Fax"} |-> FixedRule(Str("12345678"))] }

\* header rows of up to MaxHeaderLen cells: a name, the name ensureUnique
\* gives its first repeat, a blank cell, the default name of a blank cell
MaxHeaderLen == 3
HeaderInputs ==
  SeqsUpTo({Str("A"), Str("A (2)"), <<>>, Str(" "), Str("Columna")}, MaxHeaderLen)

LibraryCalls ==
  {[fn |-> "normalizeEmail", args |-> <<s>>] : s \in EmailInputs}
  \cup {[fn |-> "parseWorkbook", header |-> h] : h \in HeaderInputs}
  \cup {[fn |-> "buildUsername", args |-> <<n, a>>] : n \in NameInputs, a \in SurnameInputs}
  \cup {[fn |-> "buildOutputRow", row |-> r, mapping |-> m] :
          r \in RowInputs, m \in MappingInputs}
  \cup {[fn |-> "sanitizeMapping",
          mapping |-> mergeMapping(buildDefaultMapping(cols), stored),
          columns |-> cols, defaults |-> buildDefaultMapping(cols)] :
          cols \in ColumnInputs, stored \in StoredMappings}

\* the state of HomePage before anything is loaded (the useState initial
\* values), with a call of a library function about to be made
InitCalls ==
  /\ workbook = NoWorkbook
  /\ sheetName = ""
  /\ columns = <<>>
  /\ rows = <<>>
  /\ storedMapping = NoStored
  /\ hasUserMapping = FALSE
  /\ mapping = buildDefaultMapping(<<>>)
  /\ required = DEFAULT_REQUIRED
  /\ outlookDirectory = NoDirectory
  /\ emailOverrides = <<>>
  /\ generatedRows = <<>>
  /\ csvText = ""
  /\ downloads = <<>>
  /\ argument \in LibraryCalls
  /\ returned = NotReturned
  /\ fileReads = <<>>

CallNormalizeEmail ==
  /\ argument.fn = "normalizeEmail"
  /\ returned = NotReturned
  /\ returned' = Returned(normalizeEmail(argument.args[1]))
  /\ UNCHANGED <<workbook, sheetName, argument, columns, rows, mapping, required,
                 hasUserMapping, storedMapping, outlookDirectory, emailOverrides,
                 generatedRows, csvText, downloads,
                 fileReads>>

CallBuildUsername ==
  /\ argument.fn = "buildUsername"
  /\ returned = NotReturned
  /\ returned' = Returned(buildUsername(argument.args[1], argument.args[2]))
  /\ UNCHANGED <<workbook, sheetName, argument, columns, rows, mapping, required,
                 hasUserMapping, storedMapping, outlookDirectory, emailOverrides,
                 generatedRows, csvText, downloads,
                 fileReads>>

CallBuildOutputRow ==
  /\ argument.fn = "buildOutputRow"
  /\ returned = NotReturned
  /\ returned' = Returned(buildOutputRow(argument.row, argument.mapping))
  /\ UNCHANGED <<workbook, sheetName, argument, columns, rows, mapping, required,
                 hasUserMapping, storedMapping, outlookDirectory, emailOverrides,
                 generatedRows, csvText, downloads,
                 fileReads>>

CallSanitizeMapping ==
  /\ argument.fn = "sanitizeMapping"
  /\ returned = NotReturned
  /\ returned' = Returned(sanitizeMapping(argument.mapping, argument.columns,
                                          argument.defaults))
  /\ UNCHANGED <<workbook, sheetName, argument, columns, rows, mapping, required,
                 hasUserMapping, storedMapping, outlookDirectory, emailOverrides,
                 generatedRows, csvText, downloads,
                 fileReads>>

\* parseWorkbook on a sheet with the header row argument.header: the columns
CallParseWorkbook ==
  /\ argument.fn = "parseWorkbook"
  /\ returned = NotReturned
  /\ returned' = Returned(parseColumns(argument.header))
  /\ UNCHANGED <<workbook, sheetName, argument, columns, rows, mapping, required,
                 hasUserMapping, storedMapping, outlookDirectory, emailOverrides,
                 generatedRows, csvText, downloads, fileReads>>

NextCalls ==
  \/ CallParseWorkbook
  \/ CallNormalizeEmail
  \/ CallBuildUsername
  \/ CallBuildOutputRow
  \/ CallSanitizeMapping

SpecCalls == InitCalls /\ [][NextCalls]_vars

(***************************************************************************)
(* Loading files and switching sheets, with a mapping restored from        *)
(* localStorage by the mount effect.                                       *)
(***************************************************************************)
\* the workbooks a user loads: one sheet, four sheets of which one names
\* its columns differently and one is empty, and an empty sheet alone
WorkbookInputs ==
  LET hoja1 == parseSheet([name |-> "Hoja1",
                           header |-> <<Str("NOMBRES"), Str("APELLIDOS"), Str("DNI"),
                                        Str("CELULAR"), Str("CODIGO")>>,
                           rows |-> << <<Str("Ana María"), Str("López Díaz"),
                                         Str("12345678"), Str("999 111 222"),
                                         Str("C001")>> >>])
      hoja2 == parseSheet([name |-> "Hoja2",
                           header |-> <<Str("NOMBRE"), Str("APELLIDO"),
                                        Str("DOCUMENTO"), Str("CELULAR")>>,
                           rows |-> << <<Str("Luis"), Str("Paz"), Str("44444444"),
                                         Str("5")>> >>])
      hoja3 == parseSheet([name |-> "Hoja3",
                           header |-> <<Str("NOMBRES"), Str("APELLIDOS"), Str("DNI"),
                                        Str("CELULAR"), Str("CODIGO")>>,
                           rows |-> << <<Str("María"), Str("López"), Str("55555555"),
                                         Str("7"), Str("C003")>> >>])
      vacia == parseSheet([name |-> "Vacía", header |-> <<>>, rows |-> <<>>])
  IN { <<hoja1>>, <<hoja1, hoja2, hoja3, vacia>>, <<vacia>> }

\* the sheet effect: workbook.sheets.find(name) ?? workbook.sheets[0]
FindSheet(sheets, name) ==
  IF \E k \in 1..Len(sheets) : sheets[k].name = name
  THEN sheets[CHOOSE k \in 1..Len(sheets) :
                /\ sheets[k].name = name
                /\ \A j \in 1..(k - 1) : sheets[j].name # name]
  ELSE sheets[1]

\* the mapping effect run for the columns cols: what setMapping receives,
\* m itself when the effect returns early
mappingEffect(m, cols, userMapping, stored) ==
  IF Len(cols) = 0 THEN m
  ELSE IF ~userMapping THEN InitialMapping(cols, stored)
  ELSE sanitizeMapping(m, cols, buildDefaultMapping(cols))

\* the state two effect runs leave: the first one after hasUserMapping
\* turned false (the columns still the old ones), the second one after the
\* new sheet's columns are set
MappingAfterFile(m, oldCols, wasUserMapping, newCols, stored) ==
  mappingEffect(IF wasUserMapping THEN mappingEffect(m, oldCols, FALSE, stored) ELSE m,
                newCols, FALSE, stored)

LoadWorkbook(sheets, sheet) ==
  /\ workbook' = sheets
  /\ sheetName' = sheet.name
  /\ columns' = sheet.columns
  /\ rows' = sheet.rows
  /\ mapping' = MappingAfterFile(mapping, columns, hasUserMapping, sheet.columns,
                                 storedMapping)

handleFileChange ==
  /\ \E sheets \in WorkbookInputs : LoadWorkbook(sheets, sheets[1])
  /\ csvText' = ""
  /\ hasUserMapping' = FALSE
  /\ emailOverrides' = <<>>
  /\ generatedRows' = <<>>
  /\ UNCHANGED <<argument, returned, required, storedMapping, outlookDirectory,
                 downloads,
                 fileReads>>

ShowSheet(sheet) ==
  /\ sheetName' = sheet.name
  /\ columns' = sheet.columns
  /\ rows' = sheet.rows
  /\ mapping' = mappingEffect(mapping, sheet.columns, hasUserMapping, storedMapping)

\* the sheet select, shown for a workbook of several sheets
SelectSheet ==
  /\ workbook # NoWorkbook
  /\ Len(workbook) > 1
  /\ \E k \in 1..Len(workbook) :
        /\ workbook[k].name # sheetName
        /\ ShowSheet(FindSheet(workbook, workbook[k].name))
  /\ UNCHANGED <<workbook, argument, returned, required, hasUserMapping,
                 storedMapping, outlookDirectory, emailOverrides, generatedRows,
                 csvText, downloads,
                 fileReads>>

\* the state after the mount effect restored the persisted mapping
InitMapping ==
  /\ workbook = NoWorkbook
  /\ sheetName = ""
  /\ columns = <<>>
  /\ rows = <<>>
  /\ storedMapping \in StoredMappings
  /\ hasUserMapping = FALSE
  /\ mapping = buildDefaultMapping(<<>>)
  /\ required = DEFAULT_REQUIRED
  /\ outlookDirectory = NoDirectory
  /\ emailOverrides = <<>>
  /\ generatedRows = <<>>
  /\ csvText = ""
  /\ downloads = <<>>
  /\ argument = NoCall
  /\ returned = NotReturned
  /\ fileReads = <<>>

NextMapping ==
  \/ handleFileChange
  \/ SelectSheet
  \/ MappingEdit
  \/ handleReset

SpecMapping == InitMapping /\ [][NextMapping]_vars

(***************************************************************************)
(* Generating and downloading while the inputs change.                     *)
(***************************************************************************)
\* the map callback of handleGenerate: the projected row, its "Nombre de
\* usuario" replaced by the canonical override when the row has one
GeneratedRow(output, override) ==
  IF override # <<>> /\ toCleanString(override) # <<>>
  THEN [output EXCEPT !["Nombre de usuario"] = normalizeEmail(override)]
  ELSE output

GeneratedOutput(exported, m, overrides) ==
  [i \in 1..Len(exported) |->
     GeneratedRow(buildOutputRow(exported[i], m),
                  OverrideOf(overrides, RowKey(exported[i])))]

\* "Generar CSV": csvText is the BOM, the header line and the rows' lines
handleGenerate ==
  /\ generatedRows' = GeneratedOutput(exportRows, mapping, emailOverrides)
  /\ csvText' = "csv"
  /\ UNCHANGED <<workbook, sheetName, argument, returned, columns, rows, mapping,
                 required, hasUserMapping, storedMapping, outlookDirectory,
                 emailOverrides, downloads,
                 fileReads>>

\* a workbook of several sheets is loaded and its first sheet is shown
InitExport ==
  \E sheets \in {w \in WorkbookInputs : Len(w) > 1} :
     /\ workbook = sheets
     /\ sheetName = sheets[1].name
     /\ columns = sheets[1].columns
     /\ rows = sheets[1].rows
     /\ storedMapping = NoStored
     /\ hasUserMapping = FALSE
     /\ mapping = InitialMapping(sheets[1].columns, NoStored)
     /\ required = DEFAULT_REQUIRED
     /\ outlookDirectory = NoDirectory
     /\ emailOverrides = <<>>
     /\ generatedRows = <<>>
     /\ csvText = ""
     /\ downloads = <<>>
     /\ argument = NoCall
     /\ returned = NotReturned
     /\ fileReads = <<>>

\* the directory file the user loads is users.csv
NextExport ==
  \/ handleGenerate
  \/ handleDownload
  \/ MappingEdit
  \/ ToggleRequired
  \/ EditOverride
  \/ BulkAlternate
  \/ (handleOutlookCsvChange /\ outlookDirectory'.fileName = "users.csv")
  \/ SelectSheet

SpecExport == InitExport /\ [][NextExport]_vars

(***************************************************************************)
(* Generating from a sheet of several rows after the rule of "Nombre de    *)
(* usuario" was changed in the MappingEditor.                              *)
(***************************************************************************)
\* MappingEditor onChange for the header "Nombre de usuario": a fixed text
\* or a column of the sheet instead of the generated username
MappingEditUsername ==
  /\ \E rule \in {FixedRule(Str("alumno@autonomadeica.edu.pe")), ColumnRule(Str("CODIGO"))} :
        mapping' = SanitizedByEffect([mapping EXCEPT !["Nombre de usuario"] = rule],
                                     hasUserMapping)
  /\ hasUserMapping' = TRUE
  /\ UNCHANGED <<workbook, sheetName, argument, returned,
                 columns, rows, required, storedMapping, outlookDirectory,
                 emailOverrides, generatedRows, csvText, downloads, fileReads>>

NextGenerate ==
  \/ handleGenerate
  \/ MappingEditUsername
  \/ (handleOutlookCsvChange /\ outlookDirectory'.fileName = "users.csv")
  \/ EditOverride

SpecGenerate == Init /\ [][NextGenerate]_vars

(***************************************************************************)
(* Loads started while an earlier one is still reading its file: the file  *)
(* input stays enabled while isParsing is true, and handleFileChange       *)
(* suspends at await file.arrayBuffer().                                   *)
(***************************************************************************)
MaxReads == 2

\* handleFileChange up to the await: the setters before the try block,
\* and the mapping effect that runs if hasUserMapping turned false
handleFileChangeStarts ==
  /\ Len(fileReads) < MaxReads
  /\ \E sheets \in WorkbookInputs :
        fileReads' = Append(fileReads, [sheets |-> sheets, done |-> FALSE])
  /\ csvText' = ""
  /\ hasUserMapping' = FALSE
  /\ emailOverrides' = <<>>
  /\ generatedRows' = <<>>
  /\ mapping' = IF hasUserMapping
                THEN mappingEffect(mapping, columns, FALSE, storedMapping)
                ELSE mapping
  /\ UNCHANGED <<workbook, sheetName, columns, rows, required, storedMapping,
                 outlookDirectory, downloads, argument, returned>>

\* handleFileChange from the await on, for whichever pending read resolves:
\* setWorkbook, setSheetName, then the sheet effect and the mapping effect
handleFileChangeResumes ==
  /\ \E k \in 1..Len(fileReads) :
        /\ ~fileReads[k].done
        /\ fileReads' = [fileReads EXCEPT ![k].done = TRUE]
        /\ workbook' = fileReads[k].sheets
        /\ sheetName' = fileReads[k].sheets[1].name
        /\ columns' = fileReads[k].sheets[1].columns
        /\ rows' = fileReads[k].sheets[1].rows
        /\ mapping' = mappingEffect(mapping, fileReads[k].sheets[1].columns,
                                    hasUserMapping, storedMapping)
  /\ UNCHANGED <<required, hasUserMapping, storedMapping, outlookDirectory,
                 emailOverrides, generatedRows, csvText, downloads, argument,
                 returned>>

NextReads ==
  \/ handleFileChangeStarts
  \/ handleFileChangeResumes

SpecReads == InitMapping /\ [][NextReads]_vars

(***************************************************************************)
(* The eligibility gates as the specification words them, row by row.      *)
(***************************************************************************)
RowNumbers(rs) == {rs[i].rowNumber : i \in 1..Len(rs)}

Projection(row) == buildOutputRow(row, mapping)

\* gate 1: no condition column, or the row's condition reads INGRESO
PassesCondition(row) ==
  conditionColumn = <<>> \/ normalizeValue(Cell(row, conditionColumn)) = INGRESO

IdentityNumber(row) == digitsOnly(Projection(row)["Fax"])

\* gate 2: the identity number is empty or not in the directory
PassesIdentity(row) ==
  IdentityNumber(row) = <<>> \/ IdentityNumber(row) \notin existingDnis

\* gate 3: every enabled required field is non-empty in the projection
PassesRequired(row, req) ==
  /\ req.dni => Projection(row)["Fax"] # <<>>
  /\ req.celular => Projection(row)["Teléfono móvil"] # <<>>
  /\ req.codigo => Projection(row)["Código postal"] # <<>>

\* the canonical effective email: the override if present, else the generated one
CanonicalEmail(row) ==
  IF RowKey(row) \in DOMAIN emailOverrides /\ emailOverrides[RowKey(row)] # <<>>
  THEN normalizeEmail(emailOverrides[RowKey(row)])
  ELSE normalizeEmail(buildUsername(Projection(row)["Nombre"], Projection(row)["Apellido"]))

\* gate 4: the canonical effective email is not in the directory
PassesDirectoryEmail(row) == CanonicalEmail(row) \notin existingEmails

SurvivesGates1to4(row) ==
  /\ PassesCondition(row)
  /\ PassesIdentity(row)
  /\ PassesRequired(row, required)
  /\ PassesDirectoryEmail(row)

\* gate 5 fails: an earlier row that survives gates 1-4 has the same
\* non-empty canonical effective email
LaterDuplicate(i) ==
  /\ CanonicalEmail(rows[i]) # <<>>
  /\ \E j \in 1..(i - 1) :
        /\ SurvivesGates1to4(rows[j])
        /\ CanonicalEmail(rows[j]) = CanonicalEmail(rows[i])

\* the file the loaded directory snapshot was read from
LoadedFile == CHOOSE file \in DirectoryFiles : file.name = outlookDirectory.fileName

FieldNamed(file, candidates) == findColumn(file.fields, candidates)

\* the directory snapshot comes from a file whose schema check failed
SchemaFailed ==
  /\ outlookDirectory # NoDirectory
  /\ LoadedFile.readable
  /\ \/ FieldNamed(LoadedFile, FaxCandidates) = <<>>
     \/ FieldNamed(LoadedFile, UpnCandidates) = <<>>

\* the directory snapshot comes from a file with a Fax column and no
\* "User principal name" column
OnlyUpnMissing ==
  /\ outlookDirectory # NoDirectory
  /\ LoadedFile.readable
  /\ FieldNamed(LoadedFile, FaxCandidates) # <<>>
  /\ FieldNamed(LoadedFile, UpnCandidates) = <<>>

\* the identity numbers written in the Fax column of the loaded file
FaxNumbersOfFile ==
  {digitsOnly(FieldOf(LoadedFile.data[k], FieldNamed(LoadedFile, FaxCandidates))) :
     k \in 1..Len(LoadedFile.data)} \ {<<>>}

(***************************************************************************)
(* C1: a row is in the export set (exportRows) if and only if it passes    *)
(* all five gates: the condition gate, the directory identity gate, the    *)
(* required-field gate, the directory email gate, and it is not a later    *)
(* occurrence of an effective email shared with an earlier surviving row;  *)
(* the export set lists each such row once.                                *)
(***************************************************************************)
C1_ExportIffFiveGates ==
  LET exported == RowNumbers(exportRows)
  IN /\ \A i \in 1..Len(rows) :
          rows[i].rowNumber \in exported
            <=> (SurvivesGates1to4(rows[i]) /\ ~LaterDuplicate(i))
     /\ Len(exportRows) = Cardinality(exported)

\* a directory is in force, an override is set, one row is exported and
\* another one is not
C1_Witness ==
  /\ outlookDirectory # NoDirectory
  /\ outlookDirectory.error = NoError
  /\ DOMAIN emailOverrides # {}
  /\ \E i, j \in 1..Len(rows) :
        /\ rows[i].rowNumber \in RowNumbers(exportRows)
        /\ rows[j].rowNumber \notin RowNumbers(exportRows)

(***************************************************************************)
(* C2: the duplicate gate is first-seen-wins: among the rows surviving     *)
(* gates 1-4, of the rows sharing a non-empty canonical effective email    *)
(* exactly one is exported, the one with the lowest row number; a row with *)
(* an empty effective email is never excluded by this gate.                *)
(***************************************************************************)
C2_FirstSeenWins ==
  LET exported == RowNumbers(exportRows)
      survivors == {i \in 1..Len(rows) : SurvivesGates1to4(rows[i])}
  IN \A i \in survivors :
        LET group == {j \in survivors : CanonicalEmail(rows[j]) = CanonicalEmail(rows[i])}
            lowest == CHOOSE j \in group :
                        \A k \in group : rows[j].rowNumber <= rows[k].rowNumber
        IN IF CanonicalEmail(rows[i]) = <<>>
           THEN rows[i].rowNumber \in exported
           ELSE {j \in group : rows[j].rowNumber \in exported} = {lowest}

\* two rows surviving gates 1-4 share a non-empty effective email, the first
\* of them admitted by a required flag switched off
C2_Witness ==
  \E i, j \in 1..Len(rows) :
     /\ i < j
     /\ ~PassesRequired(rows[i], DEFAULT_REQUIRED)
     /\ SurvivesGates1to4(rows[i])
     /\ SurvivesGates1to4(rows[j])
     /\ CanonicalEmail(rows[i]) # <<>>
     /\ CanonicalEmail(rows[i]) = CanonicalEmail(rows[j])
     /\ rows[j].rowNumber \notin RowNumbers(exportRows)

(***************************************************************************)
(* C3: a row absent from the export set only because of the duplicate gate *)
(* is in no error list: not in validationIssues, not in existingDniMatches *)
(* and not in emailConflictRows.                                           *)
(***************************************************************************)
C3_DuplicatesSilent ==
  \A i \in 1..Len(rows) :
     (SurvivesGates1to4(rows[i]) /\ LaterDuplicate(i))
       => /\ rows[i].rowNumber \notin RowNumbers(exportRows)
          /\ rows[i].rowNumber \notin RowNumbers(validationIssues)
          /\ rows[i].rowNumber \notin RowNumbers(existingDniMatches)
          /\ rows[i].rowNumber \notin RowNumbers(emailConflictRows)

\* a later duplicate that has an empty field whose flag is switched off
C3_Witness ==
  \E i \in 1..Len(rows) :
     /\ SurvivesGates1to4(rows[i])
     /\ LaterDuplicate(i)
     /\ ~PassesRequired(rows[i], DEFAULT_REQUIRED)

(***************************************************************************)
(* C4 as stated: every row whose digits-only identity number is in the     *)
(* directory identity set is absent from the export set, is listed in      *)
(* existingDniMatches and is not in validationIssues.                      *)
(***************************************************************************)
C4_Original ==
  \A i \in 1..Len(rows) :
     IdentityNumber(rows[i]) \in existingDnis
       => /\ rows[i].rowNumber \notin RowNumbers(exportRows)
          /\ rows[i].rowNumber \in RowNumbers(existingDniMatches)
          /\ rows[i].rowNumber \notin RowNumbers(validationIssues)

(***************************************************************************)
(* C4 amended: every row that passes the condition gate and whose          *)
(* digits-only identity number is in the directory identity set is absent  *)
(* from the export set, listed in existingDniMatches and not in            *)
(* validationIssues, whatever its required fields; a row that fails the    *)
(* condition gate is in neither the export set nor existingDniMatches.     *)
(***************************************************************************)
C4_Amended ==
  \A i \in 1..Len(rows) :
     /\ (PassesCondition(rows[i]) /\ IdentityNumber(rows[i]) \in existingDnis)
          => /\ rows[i].rowNumber \notin RowNumbers(exportRows)
             /\ rows[i].rowNumber \in RowNumbers(existingDniMatches)
             /\ rows[i].rowNumber \notin RowNumbers(validationIssues)
     /\ ~PassesCondition(rows[i])
          => /\ rows[i].rowNumber \notin RowNumbers(exportRows)
             /\ rows[i].rowNumber \notin RowNumbers(existingDniMatches)

\* a row known to the directory that passes the condition gate of a sheet
\* with a condition column, with an enabled required field empty
C4_Witness ==
  /\ conditionColumn # <<>>
  /\ \E i \in 1..Len(rows) :
        /\ PassesCondition(rows[i])
        /\ IdentityNumber(rows[i]) \in existingDnis
        /\ ~PassesRequired(rows[i], required)
        /\ rows[i].rowNumber \in RowNumbers(existingDniMatches)

(***************************************************************************)
(* The step that switches the celular flag from on to off and changes      *)
(* nothing else.                                                           *)
(***************************************************************************)
CelularSwitchedOff ==
  /\ required.celular
  /\ required' = [required EXCEPT !.celular = FALSE]
  /\ UNCHANGED <<columns, rows, mapping, outlookDirectory, emailOverrides>>

\* baseExportRows and exportRows as the memos compute them once the
\* required flags are req and nothing else has changed
BaseExportRowsUnder(req) ==
  filterRowsForExport(rows, mapping, req, conditionColumn, existingDnis)

ExportRowsUnder(req) ==
  LET base == BaseExportRowsUnder(req)
  IN filterRowsByEmail(base, mapping, emailOverrides, existingEmails,
                       countPlannedEmails(base, mapping, emailOverrides))

\* the row fails gate 3 and only for its empty mobile number
OnlyMobileMissing(row) ==
  /\ ~PassesRequired(row, required)
  /\ PassesRequired(row, [required EXCEPT !.celular = FALSE])

\* the row is ineligible, and only for its empty mobile number
IneligibleOnlyForMobile(i) ==
  /\ PassesCondition(rows[i])
  /\ PassesIdentity(rows[i])
  /\ OnlyMobileMissing(rows[i])
  /\ PassesDirectoryEmail(rows[i])
  /\ ~LaterDuplicate(i)

(***************************************************************************)
(* C5 as stated: switching the celular flag off makes the rows that were   *)
(* ineligible only for a missing mobile number export-eligible, and no row *)
(* that was export-eligible before the switch is ineligible after it.      *)
(***************************************************************************)
C5_Original ==
  [][CelularSwitchedOff =>
       LET exportedAfter == RowNumbers(ExportRowsUnder(required'))
       IN /\ \A i \in 1..Len(rows) :
                IneligibleOnlyForMobile(i) => rows[i].rowNumber \in exportedAfter
          /\ RowNumbers(exportRows) \subseteq exportedAfter]_vars

(***************************************************************************)
(* C5 amended: switching the celular flag off adds to the rows passing     *)
(* gates 1-3 (baseExportRows) exactly the rows that failed gate 3 only for *)
(* a missing mobile number and removes none; gate 5 is evaluated again     *)
(* over the larger set, so a row that was exported, or that was ineligible *)
(* only for its mobile number, is absent from the export set afterwards    *)
(* only if a lower-numbered row admitted by the switch has the same        *)
(* non-empty effective email.                                              *)
(***************************************************************************)
C5_Amended ==
  [][CelularSwitchedOff =>
       LET before == RowNumbers(baseExportRows)
           after == RowNumbers(BaseExportRowsUnder(required'))
           exportedBefore == RowNumbers(exportRows)
           exportedAfter == RowNumbers(ExportRowsUnder(required'))
           Admitted(j) == /\ PassesCondition(rows[j])
                          /\ PassesIdentity(rows[j])
                          /\ OnlyMobileMissing(rows[j])
           Displaced(i) == \E j \in 1..(i - 1) :
                              /\ Admitted(j)
                              /\ PassesDirectoryEmail(rows[j])
                              /\ CanonicalEmail(rows[j]) # <<>>
                              /\ CanonicalEmail(rows[j]) = CanonicalEmail(rows[i])
       IN /\ before \subseteq after
          /\ \A i \in 1..Len(rows) :
                rows[i].rowNumber \in after \ before <=> Admitted(i)
          /\ \A i \in 1..Len(rows) :
                (rows[i].rowNumber \in exportedBefore \/ IneligibleOnlyForMobile(i))
                  => (rows[i].rowNumber \in exportedAfter \/ Displaced(i))]_vars

\* the celular flag is off, a row with an empty mobile number is exported
\* and a later row with the same effective email is left out
C5_Witness ==
  /\ ~required.celular
  /\ \E i, j \in 1..Len(rows) :
        /\ i < j
        /\ Projection(rows[i])["Teléfono móvil"] = <<>>
        /\ Projection(rows[j])["Teléfono móvil"] # <<>>
        /\ rows[i].rowNumber \in RowNumbers(exportRows)
        /\ SurvivesGates1to4(rows[j])
        /\ CanonicalEmail(rows[j]) = CanonicalEmail(rows[i])
        /\ rows[j].rowNumber \notin RowNumbers(exportRows)

(***************************************************************************)
(* C6: a download of n >= 1 generated rows produces exactly ceil(n/249)    *)
(* files; file i holds the generated rows (i-1)*249+1 .. min(i*249, n) in  *)
(* their order, so no file has more than 249 data rows and the files' data *)
(* rows concatenated are the generated rows; 249 rows give one file, 250   *)
(* rows give two with the 250th row alone in the second.                   *)
(***************************************************************************)
\* the line of a generated record: its values in header order
RecordLine(record) == [h \in 1..Len(OUTLOOK_HEADERS) |-> record[OUTLOOK_HEADERS[h]]]

C6_DownloadChunks ==
  downloads # <<>> =>
    LET n == Len(generatedRows)
        files == Len(downloads)
        \* the file and the place in it of the generated row k
        FileOf(k) == ((k - 1) \div 249) + 1
        PlaceOf(k) == ((k - 1) % 249) + 1
    IN /\ n >= 1
       /\ files * 249 >= n
       /\ (files - 1) * 249 < n
       /\ \A i \in 1..files : Len(downloads[i].data) <= 249
       /\ \A i \in 1..files :
             Len(downloads[i].data) = (IF i * 249 <= n THEN i * 249 ELSE n) - (i - 1) * 249
       /\ \A k \in 1..n :
             downloads[FileOf(k)].data[PlaceOf(k)] = RecordLine(generatedRows[k])
       /\ n = 249 => files = 1
       /\ n = 250 => /\ files = 2
                     /\ downloads[2].data = <<RecordLine(generatedRows[250])>>
       /\ files = totalCsvParts

\* 250 generated rows were downloaded
C6_Witness ==
  /\ Len(generatedRows) = 250
  /\ Len(downloads) = 2
  /\ Len(downloads[1].data) = 249

(***************************************************************************)
(* C7: editing a conflict row's final email to an empty or whitespace-only *)
(* value, or to a value whose canonical form equals the row's canonical    *)
(* generated email, removes that row's override, so that the row's         *)
(* effective email is its generated one again; any other typed value is    *)
(* stored, trimmed, as the row's override; the overrides of all other rows *)
(* are unchanged.                                                          *)
(***************************************************************************)
\* the source row of a conflict entry
RowOf(conflict) == rows[CHOOSE i \in 1..Len(rows) : rows[i].rowNumber = conflict.rowNumber]

C7_EditOverride ==
  LET conflicts == emailConflictRows
  IN \A c \in 1..Len(conflicts), typed \in TypedEmails :
        LET row == RowOf(conflicts[c])
            key == RowKey(row)
            generated == normalizeEmail(buildUsername(Projection(row)["Nombre"],
                                                      Projection(row)["Apellido"]))
            clears == trim(typed) = <<>> \/ normalizeEmail(typed) = generated
            result == editOverride(emailOverrides, conflicts[c], typed)
        IN /\ clears => /\ key \notin DOMAIN result
                        /\ EffectiveEmail(row, mapping, result) = generated
           /\ ~clears => /\ key \in DOMAIN result
                         /\ result[key] = trim(typed)
           /\ DOMAIN result \ {key} = DOMAIN emailOverrides \ {key}
           /\ \A k \in DOMAIN result \ {key} : result[k] = emailOverrides[k]

\* an override typed for one conflict row is stored while another row is
\* still in conflict
C7_Witness ==
  /\ DOMAIN emailOverrides # {}
  /\ \E c \in 1..Len(emailConflictRows) :
        ToString(emailConflictRows[c].rowNumber) \notin DOMAIN emailOverrides

(***************************************************************************)
(* C8 as stated: a directory file with a Fax column and no "User principal *)
(* name" column yields no emails and a schema error, while the identity    *)
(* set is still filled from the Fax column, so that gate 2 keeps excluding *)
(* the rows whose identity number is in the file.                          *)
(***************************************************************************)
C8_Original ==
  OnlyUpnMissing =>
    /\ outlookDirectory.emails = {}
    /\ outlookDirectory.error # NoError
    /\ outlookDirectory.dnis = FaxNumbersOfFile
    /\ \A i \in 1..Len(rows) :
          IdentityNumber(rows[i]) \in FaxNumbersOfFile
            => rows[i].rowNumber \notin RowNumbers(exportRows)

(***************************************************************************)
(* C8 amended: a directory file with a Fax column and no "User principal   *)
(* name" column yields no emails and a schema error, and its identity set  *)
(* is empty as well even though the Fax column was found: gate 2 excludes  *)
(* no row, so every row passing gates 1 and 3 is in baseExportRows, and no *)
(* row is listed in existingDniMatches.                                    *)
(***************************************************************************)
C8_Amended ==
  OnlyUpnMissing =>
    /\ outlookDirectory.emails = {}
    /\ outlookDirectory.error # NoError
    /\ outlookDirectory.dnis = {}
    /\ existingDniMatches = <<>>
    /\ \A i \in 1..Len(rows) :
          rows[i].rowNumber \in RowNumbers(baseExportRows)
            <=> (PassesCondition(rows[i]) /\ PassesRequired(rows[i], required))

\* such a file is loaded and a row whose identity number is written in its
\* Fax column is exported
C8_Witness ==
  /\ OnlyUpnMissing
  /\ \E i \in 1..Len(rows) :
        /\ IdentityNumber(rows[i]) \in FaxNumbersOfFile
        /\ rows[i].rowNumber \in RowNumbers(exportRows)

(***************************************************************************)
(* C9: if either directory column (Fax or User principal name) is missing, *)
(* the loaded directory is present but inert: its identity set and its     *)
(* email set are both empty and its error is set, it stands in place of    *)
(* any snapshot loaded before, and no row is rejected by gate 2 or gate 4  *)
(* because of it.                                                          *)
(***************************************************************************)
C9_SchemaErrorInert ==
  SchemaFailed =>
    /\ outlookDirectory =
         [fileName |-> LoadedFile.name, rowCount |-> Len(LoadedFile.data),
          dnis |-> {}, emails |-> {},
          error |-> "No se encontraron las columnas Fax y User principal name en el CSV."]
    /\ existingDnis = {}
    /\ existingEmails = {}
    /\ existingDniMatches = <<>>
    /\ emailConflictRows = <<>>
    /\ \A i \in 1..Len(rows) :
          (PassesCondition(rows[i]) /\ PassesRequired(rows[i], required))
            => /\ rows[i].rowNumber \in RowNumbers(baseExportRows)
               /\ (rows[i].rowNumber \in RowNumbers(exportRows) \/ LaterDuplicate(i))

\* the file with the schema error replaced a snapshot in which an override
\* had been typed, and a row that the file's columns name is exported
C9_Witness ==
  /\ SchemaFailed
  /\ DOMAIN emailOverrides # {}
  /\ \E i \in 1..Len(rows) :
        /\ rows[i].rowNumber \in RowNumbers(exportRows)
        /\ \E k \in 1..Len(LoadedFile.data) :
              \E f \in DOMAIN LoadedFile.data[k] :
                 normalizeEmail(LoadedFile.data[k][f]) = CanonicalEmail(rows[i])

(***************************************************************************)
(* C10 as stated: after a failed directory load (schema error or           *)
(* unreadable file) none of gates 2, 4 and 5 excludes a row: the export    *)
(* set is the set of rows passing the condition and required-field gates.  *)
(***************************************************************************)
LoadFailed == outlookDirectory # NoDirectory /\ outlookDirectory.error # NoError

C10_Original ==
  LoadFailed =>
    \A i \in 1..Len(rows) :
       rows[i].rowNumber \in RowNumbers(exportRows)
         <=> (PassesCondition(rows[i]) /\ PassesRequired(rows[i], required))

(***************************************************************************)
(* C10 amended: after a failed directory load (schema error or unreadable  *)
(* file) gates 2 and 4 exclude no row, while gate 5, which does not read   *)
(* the directory, still drops the later rows of a shared effective email:  *)
(* the export set is the set of rows passing the condition and             *)
(* required-field gates that have no earlier such row with the same        *)
(* non-empty effective email.                                              *)
(***************************************************************************)
C10_Amended ==
  LoadFailed =>
    LET Passes(i) == PassesCondition(rows[i]) /\ PassesRequired(rows[i], required)
    IN \A i \in 1..Len(rows) :
          rows[i].rowNumber \in RowNumbers(exportRows)
            <=> /\ Passes(i)
                /\ \/ CanonicalEmail(rows[i]) = <<>>
                   \/ \A j \in 1..(i - 1) :
                         Passes(j) => CanonicalEmail(rows[j]) # CanonicalEmail(rows[i])

\* the load of an unreadable file failed and the later of two rows with one
\* effective email is left out of the export set
C10_Witness ==
  /\ LoadFailed
  /\ ~LoadedFile.readable
  /\ \E i, j \in 1..Len(rows) :
        /\ i < j
        /\ rows[i].rowNumber \in RowNumbers(exportRows)
        /\ PassesCondition(rows[j]) /\ PassesRequired(rows[j], required)
        /\ CanonicalEmail(rows[j]) = CanonicalEmail(rows[i])
        /\ rows[j].rowNumber \notin RowNumbers(exportRows)

(***************************************************************************)
(* C11 as stated: email canonicalization is idempotent: for every input s, *)
(* also one with several "@", an empty local part or a domain made only of *)
(* characters outside [a-z0-9.], normalizeEmail(normalizeEmail(s)) =       *)
(* normalizeEmail(s).                                                      *)
(***************************************************************************)
C11_Idempotent ==
  (argument.fn = "normalizeEmail" /\ returned.done)
    => normalizeEmail(returned.value) = returned.value

(***************************************************************************)
(* C12: buildUsername(names, surnames) returns the empty string whenever   *)
(* either argument yields no token, and otherwise exactly the first token  *)
(* of names, ".", the first token of surnames and "@autonomadeica.edu.pe", *)
(* the tokens being the maximal runs of [a-z0-9] of the accent-stripped,   *)
(* lower-cased input.                                                      *)
(***************************************************************************)
\* the first maximal run of [a-z0-9] in the accent-stripped, lower-cased
\* text, empty when it has none
FirstToken(text) ==
  LET t == toLowerCase(stripAccents(text))
      inRun == {i \in 1..Len(t) : t[i] \in WordChars}
      first == CHOOSE i \in inRun : \A j \in inRun : i <= j
      last == CHOOSE i \in inRun :
                /\ i >= first
                /\ \A j \in first..i : j \in inRun
                /\ (i + 1) \notin inRun
  IN IF inRun = {} THEN <<>> ELSE SubSeq(t, first, last)

C12_BuildUsername ==
  (argument.fn = "buildUsername" /\ returned.done) =>
    LET name == FirstToken(argument.args[1])
        surname == FirstToken(argument.args[2])
    IN returned.value =
         IF name = <<>> \/ surname = <<>> THEN <<>>
         ELSE name \o <<".">> \o surname \o Str("@autonomadeica.edu.pe")

\* a call with two given names, the first accented and in upper case, and a
\* surname after a hyphen has returned an address
C12_Witness ==
  /\ argument.fn = "buildUsername"
  /\ argument.args = << <<"Í", " ", "a">>, <<"-", "a">> >>
  /\ returned.done
  /\ returned.value # <<>>

(***************************************************************************)
(* C13: when the sheet has a column detected as the enrollment condition,  *)
(* a row passes the condition gate if and only if the identity key of its  *)
(* value in that column (accents stripped, upper-cased, every character    *)
(* that is not a letter or a digit removed) equals INGRESO; when no        *)
(* condition column is detected every row passes.  The gate is what        *)
(* rowHasIngresoCondition answers; no row failing it is in baseExportRows, *)
(* and with no required flag set and no directory identity number          *)
(* baseExportRows is exactly the rows passing it.                          *)
(***************************************************************************)
RECURSIVE IdentityKey(_)
IdentityKey(text) ==
  IF text = <<>> THEN <<>>
  ELSE LET plain == IF Head(text) \in DOMAIN AccentMap
                    THEN AccentMap[Head(text)] ELSE Head(text)
           upper == IF plain \in DOMAIN UpperCaseMap
                    THEN UpperCaseMap[plain] ELSE plain
       IN (IF upper \in AlphaNumUpper THEN <<upper>> ELSE <<>>)
            \o IdentityKey(Tail(text))

ConditionValue(row) ==
  IF conditionColumn \in DOMAIN row.cells THEN row.cells[conditionColumn] ELSE <<>>

PassesGate1(row) ==
  conditionColumn # <<>> => IdentityKey(ConditionValue(row)) = INGRESO

NothingRequired == ~required.dni /\ ~required.celular /\ ~required.codigo

C13_ConditionGate ==
  \A i \in 1..Len(rows) :
     /\ rowHasIngresoCondition(rows[i], conditionColumn) <=> PassesGate1(rows[i])
     /\ rows[i].rowNumber \in RowNumbers(baseExportRows) => PassesGate1(rows[i])
     /\ (NothingRequired /\ existingDnis = {})
          => (PassesGate1(rows[i]) => rows[i].rowNumber \in RowNumbers(baseExportRows))

\* a sheet with a condition column, nothing required: the row reading
\* INGRESÓ is kept and the row reading RETIRADO is not
C13_Witness ==
  /\ conditionColumn # <<>>
  /\ NothingRequired
  /\ existingDnis = {}
  /\ \E i, j \in 1..Len(rows) :
        /\ ConditionValue(rows[i]) = Str("INGRESÓ")
        /\ rows[i].rowNumber \in RowNumbers(baseExportRows)
        /\ ConditionValue(rows[j]) = Str("RETIRADO")
        /\ rows[j].rowNumber \notin RowNumbers(baseExportRows)

(***************************************************************************)
(* C14: for every row and every mapping, the record buildOutputRow returns *)
(* has a value for each of the 16 output fields, and its "Teléfono móvil"  *)
(* and Fax values contain only decimal digits, whatever the type of the    *)
(* rule mapped to them (column, fixed or generated).                       *)
(***************************************************************************)
\* the characters of the texts of the sheets, the rules and the addresses
TextChars == CharSet(Lower \o Upper \o Digits \o Accented \o " .@+-")

OnlyDigits(text) == \A k \in 1..Len(text) : text[k] \in DigitChars

C14_ProjectionTotal ==
  (argument.fn = "buildOutputRow" /\ returned.done)
    => /\ Cardinality(HeaderSet) = 16
       /\ DOMAIN returned.value = HeaderSet
       /\ \A header \in HeaderSet : returned.value[header] \in Seq(TextChars)
       /\ OnlyDigits(returned.value["Teléfono móvil"])
       /\ OnlyDigits(returned.value["Fax"])

\* Fax is mapped to the generated username of a row whose given name is
\* read from its DNI column, "Teléfono móvil" to a fixed text with a sign,
\* a space and a letter
C14_Witness ==
  /\ argument.fn = "buildOutputRow"
  /\ returned.done
  /\ RuleOf(argument.mapping, "Fax") = GeneratedRule(GENERATED_USERNAME)
  /\ RuleOf(argument.mapping, "Teléfono móvil") = FixedRule(Str("+51 9a"))
  /\ returned.value["Nombre de usuario"] = Str("12345678.lopez@autonomadeica.edu.pe")
  /\ returned.value["Fax"] = Str("12345678")
  /\ returned.value["Teléfono móvil"] = Str("519")

(***************************************************************************)
(* C15 as stated: when a mapping is sanitized against a new column set, a  *)
(* column rule that references a column no longer present is replaced by   *)
(* the default rule inferred from the new columns for that output field,   *)
(* never by an unassigned (empty-column) rule.                             *)
(***************************************************************************)
ReferencesVanishedColumn(rule, cols) ==
  /\ rule.type = "column"
  /\ rule.value # <<>>
  /\ rule.value \notin ColumnSet(cols)

C15_VanishedColumnDefault ==
  (argument.fn = "sanitizeMapping" /\ returned.done)
    => \A header \in HeaderSet :
          ReferencesVanishedColumn(argument.mapping[header], argument.columns)
            => returned.value[header] = argument.defaults[header]

(***************************************************************************)
(* C16: in every reachable state, after any sequence of file loads, sheet  *)
(* switches, mapping edits, resets and the restoration of an arbitrary     *)
(* persisted mapping (absent, partial, with rules of unknown type, with    *)
(* generated kinds the field does not allow, or referencing columns that   *)
(* no longer exist), the mapping has exactly one rule for each of the 16   *)
(* output fields, each rule of one of the three types with a text as its  *)
(* value; the operations are total, each is evaluated in every state that  *)
(* enables it.                                                             *)
(***************************************************************************)
IsRule(rule) ==
  /\ DOMAIN rule = {"type", "value"}
  /\ rule.type \in {"column", "fixed", "generated"}
  /\ rule.value \in Seq(TextChars)

C16_MappingComplete ==
  /\ DOMAIN mapping = HeaderSet
  /\ Cardinality(DOMAIN mapping) = 16
  /\ \A header \in HeaderSet : IsRule(mapping[header])

\* the persisted mapping names the columns of an earlier sheet, the sheet
\* shown names them differently, and the mapping was edited
C16_Witness ==
  /\ storedMapping # NoStored
  /\ RuleOf(storedMapping, "Nombre") = ColumnRule(Str("NOMBRES"))
  /\ workbook # NoWorkbook
  /\ sheetName = "Hoja2"
  /\ hasUserMapping
  /\ mapping["Fax"] = FixedRule(Str("12345678"))
  /\ Str("NOMBRES") \notin ColumnSet(columns)

(***************************************************************************)
(* C17 as stated: the validation-issue list is computed per row from gates *)
(* 1-3 only (independent of overrides, directory emails and batch          *)
(* duplicates): it contains a row exactly when the row fails the condition *)
(* check or an enabled required-field check and is not excluded by the     *)
(* directory identity gate, and the missing fields listed for a row are    *)
(* exactly the enabled required fields whose projected value is empty.     *)
(***************************************************************************)
\* the labels of the enabled required fields that are empty in the projection
MissingLabels(row) ==
  {label \in {"DNI", "Celular", "Código estudiante"} :
     \/ label = "DNI" /\ required.dni /\ Projection(row)["Fax"] = <<>>
     \/ label = "Celular" /\ required.celular /\ Projection(row)["Teléfono móvil"] = <<>>
     \/ label = "Código estudiante" /\ required.codigo
          /\ Projection(row)["Código postal"] = <<>>}

\* each issue is a row's, with the row's missing labels, a row at most once
IssuesListMissingFields ==
  /\ \A k \in 1..Len(validationIssues) :
        \E i \in 1..Len(rows) :
           /\ rows[i].rowNumber = validationIssues[k].rowNumber
           /\ {validationIssues[k].missing[n] :
                 n \in 1..Len(validationIssues[k].missing)} = MissingLabels(rows[i])
           /\ Len(validationIssues[k].missing) = Cardinality(MissingLabels(rows[i]))
  /\ Len(validationIssues) = Cardinality(RowNumbers(validationIssues))

C17_Original ==
  /\ \A i \in 1..Len(rows) :
        rows[i].rowNumber \in RowNumbers(validationIssues)
          <=> /\ ~PassesCondition(rows[i]) \/ ~PassesRequired(rows[i], required)
              /\ PassesIdentity(rows[i])
  /\ IssuesListMissingFields

(***************************************************************************)
(* C17, amended: the validation-issue list is computed per row from gates  *)
(* 1-3 only (independent of overrides, directory emails and batch          *)
(* duplicates): it contains a row exactly when the row passes the          *)
(* condition check, fails an enabled required-field check and is not       *)
(* excluded by the directory identity gate, and the missing fields listed  *)
(* for a row are exactly the enabled required fields whose projected value *)
(* is empty.                                                               *)
(***************************************************************************)
C17_Amended ==
  /\ \A i \in 1..Len(rows) :
        rows[i].rowNumber \in RowNumbers(validationIssues)
          <=> /\ PassesCondition(rows[i])
              /\ ~PassesRequired(rows[i], required)
              /\ PassesIdentity(rows[i])
  /\ IssuesListMissingFields

\* a directory is loaded; the row without a mobile number is listed with
\* Celular missing although its email is in the directory, and the row
\* whose condition reads RETIRADO is not listed
C17_Witness ==
  /\ outlookDirectory # NoDirectory
  /\ \E i, j \in 1..Len(rows) :
        /\ ConditionValue(rows[j]) = Str("RETIRADO")
        /\ rows[j].rowNumber \notin RowNumbers(validationIssues)
        /\ CanonicalEmail(rows[i]) \in existingEmails
        /\ validationIssues = <<[rowNumber |-> rows[i].rowNumber,
                                 missing |-> <<"Celular">>]>>

(***************************************************************************)
(* C18: the email conflict list contains exactly the rows that survive     *)
(* gates 1-3 and whose canonical effective email (override if present,     *)
(* else generated) is non-empty and is in the directory snapshot's email   *)
(* set, in row order; each entry carries the row number, the name parts    *)
(* and the canonical system-generated email.                               *)
(***************************************************************************)
InConflict(i) ==
  /\ PassesCondition(rows[i])
  /\ PassesIdentity(rows[i])
  /\ PassesRequired(rows[i], required)
  /\ CanonicalEmail(rows[i]) # <<>>
  /\ CanonicalEmail(rows[i]) \in existingEmails

ConflictEntry(row) ==
  [rowNumber |-> row.rowNumber,
   nombre |-> Projection(row)["Nombre"],
   apellido |-> Projection(row)["Apellido"],
   generatedEmail |->
     normalizeEmail(buildUsername(Projection(row)["Nombre"], Projection(row)["Apellido"]))]

C18_ConflictList ==
  LET conflicting == {i \in 1..Len(rows) : InConflict(i)}
  IN /\ Len(emailConflictRows) = Cardinality(conflicting)
     /\ \A i \in conflicting :
           emailConflictRows[Cardinality({j \in conflicting : j <= i})]
             = ConflictEntry(rows[i])

\* two rows generate an email of the directory: the one whose override is
\* not in the directory is left out of the list, the other one is listed
C18_Witness ==
  \E i, j \in 1..Len(rows) :
     /\ rows[i].rowNumber \in RowNumbers(baseExportRows)
     /\ ConflictEntry(rows[i]).generatedEmail \in existingEmails
     /\ OverrideOf(emailOverrides, RowKey(rows[i])) # <<>>
     /\ rows[i].rowNumber \notin RowNumbers(emailConflictRows)
     /\ emailConflictRows = <<ConflictEntry(rows[j])>>

(***************************************************************************)
(* C19: the bulk "use alternate" action writes, for each row currently in  *)
(* the conflict list that has no override, the alternate email (second     *)
(* given-name token + "." + first surname token + domain) as its override  *)
(* only if an alternate can be computed and it differs after               *)
(* canonicalization from the row's generated email; rows already           *)
(* overridden, rows without a second given name, and rows not in the       *)
(* conflict list keep their override state unchanged.                      *)
(***************************************************************************)
\* where the first token of the text ends, 0 when it has none
FirstTokenEnd(text) ==
  LET t == toLowerCase(stripAccents(text))
      ends == {i \in 1..Len(t) :
                 /\ t[i] \in WordChars
                 /\ (i = Len(t) \/ t[i + 1] \notin WordChars)}
  IN IF ends = {} THEN 0 ELSE CHOOSE i \in ends : \A j \in ends : i <= j

SecondToken(text) == FirstToken(SubSeq(text, FirstTokenEnd(text) + 1, Len(text)))

AlternateEmail(row) ==
  LET second == SecondToken(Projection(row)["Nombre"])
      surname == FirstToken(Projection(row)["Apellido"])
  IN IF second = <<>> \/ surname = <<>> THEN <<>>
     ELSE second \o <<".">> \o surname \o Str("@autonomadeica.edu.pe")

\* the bulk action writes the override of row i
TakesAlternate(i) ==
  /\ InConflict(i)
  /\ OverrideOf(emailOverrides, RowKey(rows[i])) = <<>>
  /\ AlternateEmail(rows[i]) # <<>>
  /\ normalizeEmail(AlternateEmail(rows[i])) # ConflictEntry(rows[i]).generatedEmail

SameOverride(key, updated) ==
  /\ key \in DOMAIN updated <=> key \in DOMAIN emailOverrides
  /\ key \in DOMAIN emailOverrides => updated[key] = emailOverrides[key]

\* updated is what the bulk action makes of emailOverrides
BulkAlternateEffect(updated) ==
  /\ \A i \in 1..Len(rows) :
        IF TakesAlternate(i)
        THEN /\ RowKey(rows[i]) \in DOMAIN updated
             /\ updated[RowKey(rows[i])] = AlternateEmail(rows[i])
        ELSE SameOverride(RowKey(rows[i]), updated)
  /\ \A key \in (DOMAIN emailOverrides \cup DOMAIN updated)
                   \ {RowKey(rows[i]) : i \in 1..Len(rows)} : SameOverride(key, updated)

\* wherever the button is shown, what its handler computes has the effect,
\* and every step of the action leaves it in emailOverrides
C19_BulkAlternate ==
  [][/\ (ConflictSectionShown /\ Len(emailConflictRows) > 0)
          => BulkAlternateEffect(useAlternate(emailOverrides, emailConflictRows, 1))
     /\ BulkAlternate => BulkAlternateEffect(emailOverrides')]_vars

\* of two rows in the base set whose generated emails are in the directory, the
\* one with a second given name has its alternate as override and the one
\* with a single given name has none
C19_Witness ==
  \E i, j \in 1..Len(rows) :
     /\ Projection(rows[i])["Nombre"] = Str("Ana María")
     /\ OverrideOf(emailOverrides, RowKey(rows[i])) = Str("maria.lopez@autonomadeica.edu.pe")
     /\ AlternateEmail(rows[j]) = <<>>
     /\ InConflict(j)
     /\ OverrideOf(emailOverrides, RowKey(rows[j])) = <<>>

(***************************************************************************)
(* C20 as stated: export always reflects the current inputs: after any     *)
(* sequence of generate, mapping edit, required-flag toggle, override      *)
(* edit, bulk alternate, directory load and sheet switch, the rows written *)
(* by a download are the projection of the rows that are export-eligible   *)
(* under the current rows, mapping, required policy, directory snapshot    *)
(* and overrides (a download never emits a row that the current state      *)
(* makes ineligible).                                                      *)
(***************************************************************************)
\* the rows eligible in the current state, in row order
EligibleNow == {i \in 1..Len(rows) : SurvivesGates1to4(rows[i]) /\ ~LaterDuplicate(i)}

\* the projection of row i, its user name the canonical override if it has one
ExportedRecord(i) ==
  LET override == OverrideOf(emailOverrides, RowKey(rows[i]))
  IN IF override # <<>>
     THEN [Projection(rows[i]) EXCEPT !["Nombre de usuario"] = normalizeEmail(override)]
     ELSE Projection(rows[i])

RECURSIVE WrittenRows(_, _)
WrittenRows(files, part) ==
  IF part > Len(files) THEN <<>>
  ELSE files[part].data \o WrittenRows(files, part + 1)

\* the k-th written row is the exported record of the k-th eligible row
WritesEligibleRows(files) ==
  /\ Len(WrittenRows(files, 1)) = Cardinality(EligibleNow)
  /\ \A i \in EligibleNow :
        WrittenRows(files, 1)[Cardinality({j \in EligibleNow : j <= i})]
          = [h \in 1..Len(OUTLOOK_HEADERS) |-> ExportedRecord(i)[OUTLOOK_HEADERS[h]]]

C20_DownloadCurrent == [][handleDownload => WritesEligibleRows(downloads')]_vars

(***************************************************************************)
(* C21 as stated: overrides stay minimal in every reachable state: after   *)
(* any sequence of override edits, bulk alternate actions, mapping edits,  *)
(* directory loads and sheet switches, no override entry is empty and no   *)
(* override entry canonicalizes to the canonical generated email of the    *)
(* row it is keyed to.                                                     *)
(***************************************************************************)
C21_OverridesMinimal ==
  \A key \in DOMAIN emailOverrides :
     /\ emailOverrides[key] # <<>>
     /\ \A i \in 1..Len(rows) :
           RowKey(rows[i]) = key
             => normalizeEmail(emailOverrides[key])
                  # normalizeEmail(buildUsername(Projection(rows[i])["Nombre"],
                                                 Projection(rows[i])["Apellido"]))

(***************************************************************************)
(* C22 as stated: once every load that was started has finished reading,   *)
(* the workbook, the sheet, the columns and the rows are those of the load *)
(* that was started last, whatever order the reads resolved in.            *)
(***************************************************************************)
C22_LastStartedWins ==
  (Len(fileReads) > 0 /\ \A k \in 1..Len(fileReads) : fileReads[k].done)
    => LET last == fileReads[Len(fileReads)].sheets
       IN /\ workbook = last
          /\ sheetName = last[1].name
          /\ columns = last[1].columns
          /\ rows = last[1].rows

(***************************************************************************)
(* C23 as stated: after header normalization the column names of a sheet   *)
(* are pairwise distinct, for every header row, also one in which a        *)
(* literal header equals the suffixed name of a repeat ("A (2)" next to    *)
(* two "A").                                                               *)
(***************************************************************************)
C23_ColumnsDistinct ==
  (argument.fn = "parseWorkbook" /\ returned.done)
    => \A i, j \in 1..Len(returned.value) :
          returned.value[i] = returned.value[j] => i = j

(***************************************************************************)
(* C24 as stated: an override entry only applies to the row it was entered *)
(* for.  Whenever a step replaces the row set (a file load or a sheet      *)
(* switch), no override entry is left under the row number of a row of the *)
(* new row set.                                                            *)
(***************************************************************************)
C24_OverridesFollowRowSet ==
  [][rows' # rows
       => \A i \in 1..Len(rows') : RowKey(rows'[i]) \notin DOMAIN emailOverrides']_vars

(***************************************************************************)
(* C25 as stated: after Generate no two generated records carry the same   *)
(* non-empty "Nombre de usuario", whatever rule "Nombre de usuario" is     *)
(* mapped to and whatever the overrides are, and the username of an        *)
(* overridden row is the canonical form of its override.                   *)
(***************************************************************************)
\* no two of the records carry the same non-empty "Nombre de usuario"
UsernamesDistinct(records) ==
  \A i, j \in 1..Len(records) :
     (/\ records[i]["Nombre de usuario"] # <<>>
      /\ records[i]["Nombre de usuario"] = records[j]["Nombre de usuario"]) => i = j

\* the record generated for each overridden row of exported carries the
\* canonical form of the row's override
OverriddenCanonical(exported, records) ==
  /\ Len(records) = Len(exported)
  /\ \A i \in 1..Len(exported) :
        RowKey(exported[i]) \in DOMAIN emailOverrides
          => records[i]["Nombre de usuario"]
               = normalizeEmail(emailOverrides[RowKey(exported[i])])

C25_GeneratedUsernames ==
  [][handleGenerate
       => /\ UsernamesDistinct(generatedRows')
          /\ OverriddenCanonical(exportRows, generatedRows')]_vars

(***************************************************************************)
(* C26: every row shown in the email conflict list has the status          *)
(* "En uso"; no listed row shows "Sin correo", "Duplicado en la lista (no  *)
(* se exporta)" or "Disponible".  A row whose effective email does not     *)
(* collide with the directory is not in the list, and while the loaded     *)
(* file stays, a step changes or removes the override of a listed row      *)
(* only.                                                                   *)
(***************************************************************************)
ListedKeys == {ToString(emailConflictRows[i].rowNumber) : i \in 1..Len(emailConflictRows)}

OnlyListedEdited ==
  \A key \in DOMAIN emailOverrides \cup DOMAIN emailOverrides' :
     OverrideOf(emailOverrides, key) # OverrideOf(emailOverrides', key)
       => key \in ListedKeys

C26_ListedRowsInUse ==
  /\ [](\A i \in 1..Len(emailConflictRows) :
          conflictStatus(emailConflictRows[i]) = "En uso")
  /\ [](\A i \in 1..Len(rows) :
          CanonicalEmail(rows[i]) \notin existingEmails
            => RowKey(rows[i]) \notin ListedKeys)
  /\ [][OnlyListedEdited]_vars

\* two rows are listed with the same effective email, one of them through
\* its override
C26_Witness ==
  \E i, j \in 1..Len(emailConflictRows) :
     /\ i # j
     /\ ToString(emailConflictRows[i].rowNumber) \in DOMAIN emailOverrides
     /\ ToString(emailConflictRows[j].rowNumber) \notin DOMAIN emailOverrides
     /\ normalizeEmail(emailOverrides[ToString(emailConflictRows[i].rowNumber)])
          = emailConflictRows[j].generatedEmail
     /\ conflictStatus(emailConflictRows[i]) = "En uso"

(***************************************************************************)
(* C27: the bulk "use alternate" action is idempotent.  Wherever its       *)
(* button is shown, applying the action to the overrides it has just       *)
(* produced, with the conflict list recomputed for them and nothing else   *)
(* changed, produces the same overrides again.                             *)
(***************************************************************************)
\* the rows the conflict list holds when the overrides are overrides
ListedUnder(overrides) ==
  {i \in 1..Len(rows) :
     LET override == OverrideOf(overrides, RowKey(rows[i]))
         effective == IF override # <<>> THEN normalizeEmail(override)
                      ELSE ConflictEntry(rows[i]).generatedEmail
     IN /\ PassesCondition(rows[i])
        /\ PassesIdentity(rows[i])
        /\ PassesRequired(rows[i], required)
        /\ effective # <<>>
        /\ effective \in existingEmails}

\* the conflict list recomputed for the overrides overrides
ConflictRowsUnder(overrides) ==
  LET listed == ListedUnder(overrides)
  IN [k \in 1..Cardinality(listed) |->
        ConflictEntry(rows[CHOOSE i \in listed : Cardinality({j \in listed : j <= i}) = k])]

C27_BulkIdempotent ==
  /\ ConflictRowsUnder(emailOverrides) = emailConflictRows
  /\ (ConflictSectionShown /\ Len(emailConflictRows) > 0)
       => useAlternate(useAlternate(emailOverrides, emailConflictRows, 1),
                       ConflictRowsUnder(useAlternate(emailOverrides, emailConflictRows, 1)),
                       1)
            = useAlternate(emailOverrides, emailConflictRows, 1)

\* the bulk action has given a row its alternate address, and the row is
\* still listed because the alternate is in the directory too
C27_Witness ==
  \E i \in ListedUnder(emailOverrides) :
     /\ AlternateEmail(rows[i]) # <<>>
     /\ OverrideOf(emailOverrides, RowKey(rows[i])) = AlternateEmail(rows[i])
     /\ useAlternate(emailOverrides, emailConflictRows, 1) = emailOverrides

(***************************************************************************)
(* C28: every row that passes the condition gate is in exactly one of the  *)
(* existing-DNI match list, the validation-issue list and the base export  *)
(* set (the rows surviving gates 1-3), and a row that fails the condition  *)
(* gate is in none of them; no list holds a row twice.                     *)
(***************************************************************************)
\* how many of the three sets hold the row numbered n
SetsHolding(n) ==
  (IF n \in RowNumbers(existingDniMatches) THEN 1 ELSE 0)
  + (IF n \in RowNumbers(validationIssues) THEN 1 ELSE 0)
  + (IF n \in RowNumbers(baseExportRows) THEN 1 ELSE 0)

C28_ThreeWayPartition ==
  /\ \A i \in 1..Len(rows) :
        SetsHolding(rows[i].rowNumber)
          = IF rowHasIngresoCondition(rows[i], conditionColumn) THEN 1 ELSE 0
  /\ Len(existingDniMatches) = Cardinality(RowNumbers(existingDniMatches))
  /\ Len(validationIssues) = Cardinality(RowNumbers(validationIssues))
  /\ Len(baseExportRows) = Cardinality(RowNumbers(baseExportRows))

\* a sheet with a condition column whose two rows pass the gate: one is a
\* DNI match and the other one a validation issue, and nothing is exported
C28_Witness ==
  /\ conditionColumn # <<>>
  /\ Len(rows) = 2
  /\ \A i \in 1..Len(rows) : rowHasIngresoCondition(rows[i], conditionColumn)
  /\ Len(existingDniMatches) = 1
  /\ Len(validationIssues) = 1
  /\ Len(baseExportRows) = 0

====
